---- MODULE Spec2Model ----
(***************************************************************************)
(* Model of the XFlow SDK workflow engine:                                 *)
(*   WorkflowExecutor.execute, convertStageResults (workflow-executor.ts)  *)
(*   executeDistributedWorkflow (the round loop run by Temporal)           *)
(*   XFlowRegistry (registry.ts), the decorator xflowFunction              *)
(*   XFlow.executeWorkflow (xflow.ts)                                      *)
(* One run of WorkflowExecutor.execute on one WorkflowSpec is modelled     *)
(* (Spec, FairSpec), started directly or through XFlow.executeWorkflow     *)
(* (XFlowSpec); ConvertSpec applies convertStageResults, with its          *)
(* timestamps, to a result list on its own.                                *)
(* TwoRunSpec interleaves two calls of execute on one executor;            *)
(* RegistrySpec calls the methods of a registry that starts empty;         *)
(* DecoratorSpec applies the decorator to a method and calls it;           *)
(* ConnectionSpec lets callers of ConnectionManager.getConnection and      *)
(* close overlap; InstanceSpec (FairInstanceSpec) calls initialize,        *)
(* startWorkers, executeWorkflow and shutdown on one XFlow instance whose  *)
(* workers may crash.                                                      *)
(* Strings that the code builds by interpolation are sequences of their    *)
(* fragments; an absent optional field (undefined) is None.                *)
(***************************************************************************)
EXTENDS Integers, Sequences, FiniteSets, TLC

\* ---------------------------------------------------------------- bounds
MaxSize == 5       \* size of a workflow spec (see BodySize)
MaxClock == 3      \* latest reading of the clock
MaxStages == 2     \* stages of a spec whose result list is converted alone
MaxPairSize == 4   \* size of the specs of two concurrent runs together
MaxRegistered == 2 \* functions in a registry that is written
MaxArgs == 2       \* length of a list passed to validateWorkflowFunctions
MaxArg == 1        \* largest argument of a call of a decorated method
MaxCallers == 2     \* callers of the ConnectionManager that may overlap
MaxConnections == 2 \* connections created in one behaviour
MaxWorkers == 3     \* workers one XFlow instance creates

\* ------------------------------------------------------------- constants
None == <<>>                       \* undefined
NullStage == 0                     \* null returned by getStageForFunction

IdNames == <<"a", "b", "c", "d", "e", "f", "g", "h">>
Dangling == "x"                    \* an id that no stage of a spec defines
FunctionNames == {"f1", "f2", "nf"}

CircularMsg == "Circular dependency detected or no stages ready to execute"
DependencyFailedMsg == <<"Dependency stage failed">>
NotExecutedMsg == <<"Stage not executed due to workflow failure">>
StagesFailedMsg == <<"One or more stages failed">>
ActivityErrorMsg == <<"activity failed">>
ClientErrorText == <<"Error: ", "connection failed">>

VARIABLES
  spec,             \* WorkflowSpec.stages: sequence of WorkflowStage
  functions,        \* XFlowRegistry.functions: name -> registration
  stageMap,         \* XFlowRegistry.stageMap: tier -> set of names
  client,           \* WorkflowExecutor.client is set
  pc,               \* position of WorkflowExecutor.execute
  wfpc,             \* position of executeDistributedWorkflow
  results,          \* executeDistributedWorkflow: results
  completedStages,  \* executeDistributedWorkflow: completedStages
  readyStages,      \* readyStages of the current round (indices into spec)
  stagePromises,    \* settled value of each promise of the current round
  thrown,           \* error the workflow function threw
  caught,           \* error caught by the catch block of execute
  report,           \* value returned by WorkflowExecutor.execute
  round,            \* rounds dispatched so far
  dispatched,       \* per stage: rounds in which its callback was started
  invoked,          \* per stage: rounds in which executeOnWorkerStage ran
  outcome,          \* per stage: outcome of its executor invocation
  settled,          \* per round: the stage whose executor invocation settled first
  isInitialized,    \* XFlow.isInitialized
  xpc,              \* position of XFlow.executeWorkflow
  workflowResult,   \* value returned by XFlow.executeWorkflow
  rejected,         \* error thrown by XFlow.executeWorkflow
  now,              \* the clock: the value of new Date()
  terminatedAt,     \* time at which the run of the result list ended
  resultList,       \* a result list with timestamps, as handle.result() gives
  conversions,      \* the values of the calls of convertStageResults on it
  conversionTimes,  \* the times of these calls
  current,          \* which of two concurrent runs holds the run variables
  parked,           \* the run variables of the other run, while suspended
  lastCall,         \* the last call of a registry method or of the decorator
  methods,          \* descriptor.value of each method of the decorated class
  call,             \* the call of a decorated method that is in progress
  connection,       \* ConnectionManager.connection: 0 is null, else the object
  connectionLog,    \* connections created and handed out since the last close
  callers,          \* per caller of the ConnectionManager: its call in progress
  workers,          \* XFlow.workers: tier -> the worker stored for it
  created,          \* the workers WorkerFactory.createWorker has created
  apiCall,          \* the call of a method of the XFlow instance in progress
  externalQueues    \* task queues polled by workers of other processes

vars == <<spec, functions, stageMap, client, pc, wfpc, results,
          completedStages, readyStages, stagePromises, thrown, caught, report,
          round, dispatched, invoked, outcome, settled, isInitialized, xpc,
          workflowResult, rejected, now, terminatedAt, resultList, conversions,
          conversionTimes, current, parked, lastCall, methods, call,
          connection, connectionLog, callers, workers, created, apiCall,
          externalQueues>>

convertVars == <<now, terminatedAt, resultList, conversions, conversionTimes>>
pairVars == <<current, parked>>
apiVars == <<lastCall, methods, call>>
runVars == <<spec, client, pc, wfpc, results, completedStages, readyStages,
             stagePromises, thrown, caught, report, round, dispatched,
             invoked, outcome, settled>>
xflowVars == <<isInitialized, xpc, workflowResult, rejected>>
instanceVars == <<connection, connectionLog, callers, workers, created,
                  apiCall, externalQueues>>

Range(s) == {s[k] : k \in 1..Len(s)}

\* ------------------------------------------------------ workflow specs
\* A WorkflowStage is [id, function, dependsOn]; dependsOn is optional:
\* {} is a missing list, {d} is the list d.
DepList(stage) == IF stage.dependsOn = {} THEN <<>>
                  ELSE CHOOSE d \in stage.dependsOn : TRUE

\* The ascending sequence of the elements of a set of positions of `names`.
RECURSIVE PickSeq(_, _)
PickSeq(names, S) ==
  IF S = {} THEN <<>>
  ELSE LET m == CHOOSE x \in S : \A y \in S : x <= y
       IN <<names[m]>> \o PickSeq(names, S \ {m})

\* The specs a run is started on are all specs up to a size.  A stage counts
\* 1, plus 1 for each dependency, for an explicit empty dependsOn list, for
\* a function other than "f1" and for an id that repeats an earlier one.
\* Ids are named in order of first occurrence (specs are drawn up to renaming).
DepSize(dependsOn) ==
  IF dependsOn = {} THEN 0
  ELSE LET d == CHOOSE x \in dependsOn : TRUE IN IF Len(d) = 0 THEN 1 ELSE Len(d)

BodySize(body) ==
  1 + DepSize(body.dependsOn) + (IF body.function = "f1" THEN 0 ELSE 1)

\* Every id sequence of length n with `dups` repeated ids.
RECURSIVE IdPatterns(_, _)
IdPatterns(n, dups) ==
  IF n = 0 THEN IF dups = 0 THEN {<<>>} ELSE {}
  ELSE {Append(p, IdNames[n - dups]) : p \in IdPatterns(n - 1, dups)}
       \cup (IF dups = 0 THEN {}
             ELSE UNION {{Append(p, id) : id \in Range(p)} :
                           p \in IdPatterns(n - 1, dups - 1)})

Bodies(targets, budget) ==
  {b \in [function : FunctionNames,
          dependsOn : {{}} \cup {{PickSeq(targets, S)} :
                        S \in {T \in SUBSET (1..Len(targets)) :
                                 Cardinality(T) < budget}}] :
     BodySize(b) <= budget}

\* Every sequence of k stage bodies of total size at most budget.
RECURSIVE BodySeqs(_, _, _)
BodySeqs(targets, k, budget) ==
  IF k = 0 THEN {<<>>}
  ELSE UNION {{Append(s, b) : s \in BodySeqs(targets, k - 1, budget - BodySize(b))} :
                b \in Bodies(targets, budget - (k - 1))}

SpecsOf(n, dups) ==
  LET targets == SubSeq(IdNames, 1, n - dups) \o <<Dangling>>
  IN {[k \in 1..n |-> [id |-> p[k], function |-> bs[k].function,
                       dependsOn |-> bs[k].dependsOn]] :
        p \in IdPatterns(n, dups), bs \in BodySeqs(targets, n, MaxSize - dups)}

WorkflowSpecs ==
  UNION {SpecsOf(n, dups) : n \in 0..MaxSize, dups \in 0..MaxSize}


\* ------------------------------------------------------------ registry
\* RegisteredXFlowFunction (options and metadata left out); an original
\* function is named by its implementation.
Registration(name, stage, originalFunction) ==
  [name |-> name, stage |-> stage, originalFunction |-> originalFunction]

EmptyStageMap == [s \in {1, 2, 3} |-> {}]

\* The registry after the decorators of "f1" (tier 1) and "f2" (tier 2) ran.
DecoratedFunctions ==
  [n \in {"f1", "f2"} |->
     IF n = "f1" THEN Registration("f1", 1, "implA")
     ELSE Registration("f2", 2, "implB")]

DecoratedStageMap == [s \in {1, 2, 3} |-> IF s = 1 THEN {"f1"} ELSE IF s = 2 THEN {"f2"} ELSE {}]

\* XFlowRegistry.getStageForFunction: the tier of a registered name, or null.
getStageForFunction(functionName) ==
  IF functionName \in DOMAIN functions
  THEN functions[functionName].stage ELSE NullStage

\* ------------------------------------------- executeDistributedWorkflow
\* InternalStageResult (timestamps left out); status "PENDING" marks a
\* promise of the round that has not settled yet.
StageResult(stageId, status, result, error, executedBy) ==
  [stageId |-> stageId, status |-> status, result |-> result,
   error |-> error, executedBy |-> executedBy]

PendingPromise(stageId) == StageResult(stageId, "PENDING", None, None, "")

StageName(workerStage) == <<"stage1", "stage2", "stage3">>[workerStage]

NotFoundMsg(functionName) == <<"Function '", functionName, "' not found in registry">>

\* The value the worker tier returns for a function: what the registered
\* function returns.  "f2" is a function that returns nothing (undefined).
ActivityOutput(functionName) ==
  IF functionName = "f2" THEN None ELSE <<"output of ", functionName>>

\* IsReady with dependsOn.some in place of dependsOn.every.
IsReady_Some(stage, completed) ==
  IF stage.id \in completed THEN FALSE
  ELSE IF stage.dependsOn = {} \/ Len(DepList(stage)) = 0 THEN TRUE
  ELSE \E k \in 1..Len(DepList(stage)) : DepList(stage)[k] \in completed

\* IsReady without the test of the dependencies.
IsReady_NoDeps(stage, completed) ==
  IF stage.id \in completed THEN FALSE ELSE TRUE

\* IsReady with the test for a missing or empty dependsOn inverted.
IsReady_NoRoots(stage, completed) ==
  IF stage.id \in completed THEN FALSE
  ELSE IF stage.dependsOn = {} \/ Len(DepList(stage)) = 0 THEN FALSE
  ELSE \A k \in 1..Len(DepList(stage)) : DepList(stage)[k] \in completed

\* The filter callback of readyStages.
IsReady(stage, completed) ==
  IF stage.id \in completed THEN FALSE
  ELSE IF stage.dependsOn = {} \/ Len(DepList(stage)) = 0 THEN TRUE
  ELSE \A k \in 1..Len(DepList(stage)) : DepList(stage)[k] \in completed

\* ReadyStages that lets only the first ready stage through.
ReadyStages_First(stages, completed) ==
  LET Test(k) == IsReady(stages[k], completed)
      ready == SelectSeq([k \in 1..Len(stages) |-> k], Test)
  IN IF Len(ready) = 0 THEN ready ELSE <<ready[1]>>

\* spec.stages.filter(...): the positions of the ready stages, in spec order.
ReadyStages(stages, completed) ==
  LET Test(k) == IsReady(stages[k], completed)
  IN SelectSeq([k \in 1..Len(stages) |-> k], Test)

\* StartStage that records the tier "none" for an unregistered function.
StartStage_None(stage) ==
  IF getStageForFunction(stage.function) = NullStage
  THEN StageResult(stage.id, "FAILED", None, NotFoundMsg(stage.function), "none")
  ELSE PendingPromise(stage.id)

\* The part of the stage callback that runs before its first await: an
\* unregistered function fails at once, otherwise the executor is invoked.
StartStage(stage) ==
  IF getStageForFunction(stage.function) = NullStage
  THEN StageResult(stage.id, "FAILED", None, NotFoundMsg(stage.function), "unknown")
  ELSE PendingPromise(stage.id)

\* The return value of the stage callback when the executor returned.
StageSucceeded(stage) ==
  StageResult(stage.id, "COMPLETED", ActivityOutput(stage.function), None,
              StageName(getStageForFunction(stage.function)))

\* StageFailed that leaves the error out.
StageFailed_NoError(stage, message) ==
  StageResult(stage.id, "FAILED", None, None, "unknown")

\* The return value of the stage callback when the executor threw.
StageFailed(stage, message) ==
  StageResult(stage.id, "FAILED", None, message, "unknown")

\* FoldCompleted without the test of the status.
FoldCompleted_All(completed, stageResults) ==
  completed \cup {stageResults[k].stageId : k \in 1..Len(stageResults)}

\* stageResults.forEach: the completed set after folding a round.
FoldCompleted(completed, stageResults) ==
  completed \cup {stageResults[k].stageId :
                    k \in {j \in 1..Len(stageResults) : stageResults[j].status = "COMPLETED"}}

\* CascadeResults that marks only the direct dependents of a failed stage.
CascadeResults_Direct(stages, completed, stageResults) ==
  LET Remaining(k) ==
        /\ stages[k].id \notin completed
        /\ ~ \E j \in 1..Len(stageResults) : stageResults[j].stageId = stages[k].id
        /\ \E j \in 1..Len(stageResults) :
             /\ stageResults[j].status = "FAILED"
             /\ stageResults[j].stageId \in Range(DepList(stages[k]))
      rem == SelectSeq([k \in 1..Len(stages) |-> k], Remaining)
  IN [k \in 1..Len(rem) |->
        StageResult(stages[rem[k]].id, "FAILED", None, DependencyFailedMsg, "none")]

\* CascadeResults without the test for a result of this round.
CascadeResults_All(stages, completed, stageResults) ==
  LET Remaining(k) == stages[k].id \notin completed
      rem == SelectSeq([k \in 1..Len(stages) |-> k], Remaining)
  IN [k \in 1..Len(rem) |->
        StageResult(stages[rem[k]].id, "FAILED", None, DependencyFailedMsg, "none")]

\* The entries pushed for the remaining stages after a failing round.
CascadeResults(stages, completed, stageResults) ==
  LET Remaining(k) ==
        /\ stages[k].id \notin completed
        /\ ~ \E j \in 1..Len(stageResults) : stageResults[j].stageId = stages[k].id
      rem == SelectSeq([k \in 1..Len(stages) |-> k], Remaining)
  IN [k \in 1..Len(rem) |->
        StageResult(stages[rem[k]].id, "FAILED", None, DependencyFailedMsg, "none")]

\* AllSettled for callbacks that reject: the join ends at the first failure.
AllSettled_FailFast(promises) ==
  \/ \E k \in 1..Len(promises) : promises[k].status = "FAILED"
  \/ \A k \in 1..Len(promises) : promises[k].status # "PENDING"

\* AllSettled as Promise.race: the join ends when one promise has settled.
AllSettled_Race(promises) ==
  \E k \in 1..Len(promises) : promises[k].status # "PENDING"

\* await Promise.all(stagePromises): no callback rejects, so the join
\* resolves when every promise of the round has settled.
AllSettled(promises) ==
  \A k \in 1..Len(promises) : promises[k].status # "PENDING"

\* The error thrown when no stage is ready.
NoReadyError == <<"Error: ", CircularMsg>>

\* RoundFailed with length >= 0 in place of length > 0.
RoundFailed_Always(stageResults) ==
  \/ \E k \in 1..Len(stageResults) : stageResults[k].status = "FAILED"
  \/ Len(stageResults) >= 0

\* RoundFailed that misses the failures of the round.
RoundFailed_Never(stageResults) ==
  \E k \in 1..Len(stageResults) : stageResults[k].status = "FAILURE"

RoundFailed(stageResults) ==
  \E k \in 1..Len(stageResults) : stageResults[k].status = "FAILED"

\* EnterLoop without the test of an empty ready set: the loop goes round
\* on an empty round.
EnterLoop_Spin(res, completed) ==
  IF ~ (Cardinality(completed) < Len(spec))
  THEN /\ wfpc' = "returned"
       /\ results' = res
       /\ completedStages' = completed
       /\ UNCHANGED <<readyStages, stagePromises, thrown, round, dispatched, invoked>>
  ELSE LET ready == ReadyStages(spec, completed) IN
       /\ wfpc' = "awaitAll"
       /\ results' = res
       /\ completedStages' = completed
       /\ readyStages' = ready
       /\ stagePromises' = [k \in 1..Len(ready) |-> StartStage(spec[ready[k]])]
       /\ round' = IF Len(ready) = 0 THEN round ELSE round + 1
       /\ dispatched' = [i \in 1..Len(spec) |->
            IF \E k \in 1..Len(ready) : ready[k] = i
            THEN dispatched[i] \cup {round + 1} ELSE dispatched[i]]
       /\ invoked' = [i \in 1..Len(spec) |->
            IF \E k \in 1..Len(ready) :
                 ready[k] = i /\ stagePromises'[k].status = "PENDING"
            THEN invoked[i] \cup {round + 1} ELSE invoked[i]]
       /\ UNCHANGED thrown

\* One evaluation of the while loop from its test up to the await of
\* Promise.all (or the return, or the throw), given the loop's state.
EnterLoop(res, completed) ==
  IF ~ (Cardinality(completed) < Len(spec))
  THEN /\ wfpc' = "returned"
       /\ results' = res
       /\ completedStages' = completed
       /\ UNCHANGED <<readyStages, stagePromises, thrown, round, dispatched, invoked>>
  ELSE LET ready == ReadyStages(spec, completed) IN
       IF Len(ready) = 0
       THEN /\ wfpc' = "threw"
            /\ thrown' = NoReadyError
            /\ results' = res
            /\ completedStages' = completed
            /\ readyStages' = ready
            /\ stagePromises' = <<>>
            /\ UNCHANGED <<round, dispatched, invoked>>
       ELSE /\ wfpc' = "awaitAll"
            /\ results' = res
            /\ completedStages' = completed
            /\ readyStages' = ready
            /\ stagePromises' = [k \in 1..Len(ready) |-> StartStage(spec[ready[k]])]
            /\ round' = round + 1
            /\ dispatched' = [i \in 1..Len(spec) |->
                 IF \E k \in 1..Len(ready) : ready[k] = i
                 THEN dispatched[i] \cup {round + 1} ELSE dispatched[i]]
            /\ invoked' = [i \in 1..Len(spec) |->
                 IF \E k \in 1..Len(ready) :
                      ready[k] = i /\ stagePromises'[k].status = "PENDING"
                 THEN invoked[i] \cup {round + 1} ELSE invoked[i]]
            /\ UNCHANGED thrown

\* The worker picks the workflow up and runs it to its first await.
WorkflowBegin ==
  /\ wfpc = "scheduled"
  /\ EnterLoop(<<>>, {})
  /\ UNCHANGED <<stageMap, xflowVars, convertVars, pairVars, instanceVars, apiVars>>
  /\ UNCHANGED <<spec, functions, client, pc, caught, report, outcome, settled>>

\* No executor invocation of the round in flight has settled yet.
FirstOfRound == \A j \in 1..Len(readyStages) : outcome[readyStages[j]] = "none"

\* executeOnWorkerStage returns for the k-th stage of the round.
ExecutorReturns(k) ==
  /\ wfpc = "awaitAll"
  /\ stagePromises[k].status = "PENDING"
  /\ stagePromises' = [stagePromises EXCEPT ![k] = StageSucceeded(spec[readyStages[k]])]
  /\ outcome' = [outcome EXCEPT ![readyStages[k]] = "returned"]
  /\ settled' = IF FirstOfRound THEN Append(settled, readyStages[k]) ELSE settled
  /\ UNCHANGED <<stageMap, xflowVars, convertVars, pairVars, instanceVars, apiVars>>
  /\ UNCHANGED <<spec, functions, client, pc, wfpc, results, completedStages,
                 readyStages, thrown, caught, report, round, dispatched, invoked>>

\* executeOnWorkerStage throws for the k-th stage of the round.
ExecutorThrows(k) ==
  /\ wfpc = "awaitAll"
  /\ stagePromises[k].status = "PENDING"
  /\ stagePromises' = [stagePromises EXCEPT
                         ![k] = StageFailed(spec[readyStages[k]], ActivityErrorMsg)]
  /\ outcome' = [outcome EXCEPT ![readyStages[k]] = "threw"]
  /\ settled' = IF FirstOfRound THEN Append(settled, readyStages[k]) ELSE settled
  /\ UNCHANGED <<stageMap, xflowVars, convertVars, pairVars, instanceVars, apiVars>>
  /\ UNCHANGED <<spec, functions, client, pc, wfpc, results, completedStages,
                 readyStages, thrown, caught, report, round, dispatched, invoked>>

\* Promise.all resolves: the round is folded, then the loop either stops
\* with the cascade entries or goes round again.
RoundJoin ==
  /\ wfpc = "awaitAll"
  /\ AllSettled(stagePromises)
  /\ LET res == results \o stagePromises
         completed == FoldCompleted(completedStages, stagePromises)
     IN IF RoundFailed(stagePromises)
        THEN /\ wfpc' = "returned"
             /\ results' = res \o CascadeResults(spec, completed, stagePromises)
             /\ completedStages' = completed
             /\ UNCHANGED <<readyStages, stagePromises, thrown, round, dispatched, invoked>>
        ELSE EnterLoop(res, completed)
  /\ UNCHANGED <<stageMap, xflowVars, convertVars, pairVars, instanceVars, apiVars>>
  /\ UNCHANGED <<spec, functions, client, pc, caught, report, outcome, settled>>

\* ------------------------------------------------------ WorkflowExecutor
\* internalResults.find(r => r.stageId === id): position of the first
\* result of the stage id, 0 when there is none.
FindResult(internalResults, id) ==
  IF \E k \in 1..Len(internalResults) : internalResults[k].stageId = id
  THEN CHOOSE k \in 1..Len(internalResults) :
         /\ internalResults[k].stageId = id
         /\ \A j \in 1..(k - 1) : internalResults[j].stageId # id
  ELSE 0

\* WorkflowExecutionStage: the stage definition and its outcome.
ExecutionStage(stage, status, result, error, executedBy) ==
  [id |-> stage.id, function |-> stage.function, dependsOn |-> stage.dependsOn,
   status |-> status, result |-> result, error |-> error, executedBy |-> executedBy]

\* convertStageResults that maps over the result list, not over spec.stages.
convertStageResults_ByResults(internalResults, stages) ==
  [r \in 1..Len(internalResults) |->
     LET k == CHOOSE h \in 1..Len(stages) : stages[h].id = internalResults[r].stageId IN
     ExecutionStage(stages[k],
       IF internalResults[r].status = "COMPLETED" THEN "COMPLETED" ELSE "FAILED",
       internalResults[r].result, internalResults[r].error,
       internalResults[r].executedBy)]

convertStageResults(internalResults, stages) ==
  [k \in 1..Len(stages) |->
     LET r == FindResult(internalResults, stages[k].id) IN
     IF r = 0
     THEN ExecutionStage(stages[k], "FAILED", None, NotExecutedMsg, "none")
     ELSE ExecutionStage(stages[k],
            IF internalResults[r].status = "COMPLETED" THEN "COMPLETED" ELSE "FAILED",
            internalResults[r].result, internalResults[r].error,
            internalResults[r].executedBy)]

\* convertStageResultsAt that stamps every entry with the time of the call.
convertStageResultsAt_Now(internalResults, stages, date) ==
  [k \in 1..Len(stages) |->
     LET r == FindResult(internalResults, stages[k].id) IN
     IF r = 0
     THEN [id |-> stages[k].id, function |-> stages[k].function,
           dependsOn |-> stages[k].dependsOn, status |-> "FAILED",
           startTime |-> date, endTime |-> date, result |-> None,
           error |-> NotExecutedMsg, executedBy |-> "none"]
     ELSE [id |-> stages[k].id, function |-> stages[k].function,
           dependsOn |-> stages[k].dependsOn,
           status |-> IF internalResults[r].status = "COMPLETED"
                      THEN "COMPLETED" ELSE "FAILED",
           startTime |-> date, endTime |-> date,
           result |-> internalResults[r].result,
           error |-> internalResults[r].error,
           executedBy |-> internalResults[r].executedBy]]

\* convertStageResults with the timestamps of the entries; date is the
\* value that new Date() has during the call.
convertStageResultsAt(internalResults, stages, date) ==
  [k \in 1..Len(stages) |->
     LET r == FindResult(internalResults, stages[k].id) IN
     IF r = 0
     THEN [id |-> stages[k].id, function |-> stages[k].function,
           dependsOn |-> stages[k].dependsOn, status |-> "FAILED",
           startTime |-> date, endTime |-> date, result |-> None,
           error |-> NotExecutedMsg, executedBy |-> "none"]
     ELSE [id |-> stages[k].id, function |-> stages[k].function,
           dependsOn |-> stages[k].dependsOn,
           status |-> IF internalResults[r].status = "COMPLETED"
                      THEN "COMPLETED" ELSE "FAILED",
           startTime |-> internalResults[r].startTime,
           endTime |-> internalResults[r].endTime,
           result |-> internalResults[r].result,
           error |-> internalResults[r].error,
           executedBy |-> internalResults[r].executedBy]]

\* AllCompleted with stages.some in place of stages.every.
AllCompleted_Some(stages) == \E k \in 1..Len(stages) : stages[k].status = "COMPLETED"

\* stages.every(stage => stage.status === 'COMPLETED')
AllCompleted(stages) == \A k \in 1..Len(stages) : stages[k].status = "COMPLETED"

\* The report of the try block of execute.
TryReport(internalResults, stages) ==
  LET converted == convertStageResults(internalResults, stages) IN
  [status |-> IF AllCompleted(converted) THEN "COMPLETED" ELSE "FAILED",
   stages |-> converted,
   error |-> IF AllCompleted(converted) THEN None ELSE StagesFailedMsg]

\* CatchReport whose top-level error leaves the caught error out.
CatchReport_NoCause(error, stages) ==
  [status |-> "FAILED",
   stages |-> [k \in 1..Len(stages) |->
                 ExecutionStage(stages[k], "FAILED", None,
                                <<"Workflow failed: ">> \o error, "none")],
   error |-> <<"Workflow execution failed">>]

\* CatchReport with the tier and the reason of the stage callback's catch.
CatchReport_Unknown(error, stages) ==
  [status |-> "FAILED",
   stages |-> [k \in 1..Len(stages) |->
                 ExecutionStage(stages[k], "FAILED", None, error, "unknown")],
   error |-> <<"Workflow execution failed: ">> \o error]

\* The report of the catch block of execute.
CatchReport(error, stages) ==
  [status |-> "FAILED",
   stages |-> [k \in 1..Len(stages) |->
                 ExecutionStage(stages[k], "FAILED", None,
                                <<"Workflow failed: ">> \o error, "none")],
   error |-> <<"Workflow execution failed: ">> \o error]

NoReport == [status |-> "NONE", stages |-> <<>>, error |-> None]

\* No second run.
NoRun == [spec |-> <<>>]

\* No registry method has been called.
NoCall == [op |-> "none"]

\* The methods of the class before a decorator is applied: descriptor.value
\* is the method's own function.
MethodKeys == {"m1"}

UndecoratedMethods ==
  [key \in MethodKeys |->
     [original |-> "implA", wrapped |-> FALSE, name |-> "", stage |-> 0,
      hooks |-> {}]]

\* No call of a decorated method is in progress.
NoMethodCall == [hpc |-> "idle"]

Callers == 1..MaxCallers

\* A caller of the ConnectionManager that has no call in progress.
NoCaller == [op |-> "none", cpc |-> "idle", got |-> 0]

\* No method of the XFlow instance is in progress.
NoApiCall ==
  [op |-> "none", apc |-> "idle", stages |-> <<>>, prefix |-> "",
   tested |-> FALSE, initializedBefore |-> FALSE, error |-> <<>>]

\* No tier has a worker in XFlow.workers (0 stands for a missing key).
NoWorkers == [s \in {1, 2, 3} |-> 0]

\* A ConnectionManager and an XFlow instance as their constructors leave
\* them, with no call in progress.
InstanceIdle ==
  /\ connection = 0
  /\ connectionLog = [created |-> {}, received |-> {}, total |-> 0]
  /\ callers = [c \in Callers |-> NoCaller]
  /\ workers = NoWorkers
  /\ created = <<>>
  /\ apiCall = NoApiCall
  /\ externalQueues = {}

\* getClient: the client is returned if there is one, otherwise a connection
\* is awaited.
GetClient ==
  /\ pc = "getClient"
  /\ pc' = IF client THEN "start" ELSE "connecting"
  /\ UNCHANGED <<stageMap, xflowVars, convertVars, pairVars, instanceVars, apiVars>>
  /\ UNCHANGED <<spec, functions, client, wfpc, results, completedStages,
                 readyStages, stagePromises, thrown, caught, report, round,
                 dispatched, invoked, outcome, settled>>

\* getConnection resolves and the client is created and stored, or it
\* rejects and execute returns the report of its catch block.
Connect ==
  /\ pc = "connecting"
  /\ \/ /\ client' = TRUE
        /\ pc' = "start"
        /\ UNCHANGED <<caught, report>>
     \/ /\ pc' = "returned"
        /\ caught' = ClientErrorText
        /\ report' = CatchReport(caught', spec)
        /\ UNCHANGED client
  /\ UNCHANGED <<stageMap, xflowVars, convertVars, pairVars, instanceVars, apiVars>>
  /\ UNCHANGED <<spec, functions, wfpc, results, completedStages, readyStages,
                 stagePromises, thrown, round, dispatched, invoked, outcome, settled>>

\* client.start: the workflow is scheduled on the orchestration queue, or
\* the call fails.
ClientStart ==
  /\ pc = "start"
  /\ \/ /\ pc' = "awaitResult"
        /\ wfpc' = "scheduled"
        /\ UNCHANGED <<caught, report>>
     \/ /\ pc' = "returned"
        /\ caught' = ClientErrorText
        /\ report' = CatchReport(caught', spec)
        /\ UNCHANGED wfpc
  /\ UNCHANGED <<stageMap, xflowVars, convertVars, pairVars, instanceVars, apiVars>>
  /\ UNCHANGED <<spec, functions, client, results, completedStages, readyStages,
                 stagePromises, thrown, round, dispatched, invoked, outcome, settled>>

\* handle.result() resolves with the workflow's return value.
ResultResolves ==
  /\ pc = "awaitResult"
  /\ wfpc = "returned"
  /\ pc' = "returned"
  /\ report' = TryReport(results, spec)
  /\ UNCHANGED caught
  /\ UNCHANGED <<stageMap, xflowVars, convertVars, pairVars, instanceVars, apiVars>>
  /\ UNCHANGED <<spec, functions, client, wfpc, results, completedStages,
                 readyStages, stagePromises, thrown, round, dispatched, invoked, outcome, settled>>

\* handle.result() rejects: with the error the workflow threw, or with a
\* client error once the workflow has ended.
ResultRejects ==
  /\ pc = "awaitResult"
  /\ \/ /\ wfpc = "threw"
        /\ caught' = thrown
     \/ /\ wfpc \in {"returned", "threw"}
        /\ caught' = ClientErrorText
  /\ report' = CatchReport(caught', spec)
  /\ pc' = "returned"
  /\ UNCHANGED <<stageMap, xflowVars, convertVars, pairVars, instanceVars, apiVars>>
  /\ UNCHANGED <<spec, functions, client, wfpc, results, completedStages,
                 readyStages, stagePromises, thrown, round, dispatched, invoked, outcome, settled>>

\* ----------------------------------------------------------------- XFlow
\* missing.join(', ')
RECURSIVE JoinNames(_)
JoinNames(names) ==
  IF Len(names) = 0 THEN <<>>
  ELSE IF Len(names) = 1 THEN names
  ELSE <<names[1], ", ">> \o JoinNames(Tail(names))

\* validateWorkflowFunctions that accepts every name.
validateWorkflowFunctions_Valid(functionNames) ==
  [valid |-> TRUE, missing |-> <<>>]

\* XFlowRegistry.validateWorkflowFunctions: the names that are not registered.
validateWorkflowFunctions(functionNames) ==
  LET Absent(name) == name \notin DOMAIN functions
      missing == SelectSeq(functionNames, Absent)
  IN [valid |-> Len(missing) = 0, missing |-> missing]

ValidationError(missing) ==
  <<"Error: ", "Workflow validation failed. Missing functions: ">>
    \o JoinNames(missing)
    \o <<". Make sure all functions are decorated with @xflowFunction.">>

InitializationError ==
  <<"Error: ", "XFlow initialization failed: ",
    "Error: ", "Cannot connect to Temporal server: ">> \o ClientErrorText

NoResult == [status |-> "NONE", stages |-> <<>>, error |-> None]

\* ensureInitialized: initialize() tests the connection unless the SDK is
\* initialized already; a failed test makes executeWorkflow throw.
EnsureInitialized ==
  /\ xpc = "ensureInitialized"
  /\ \/ /\ isInitialized' = TRUE
        /\ xpc' = "validate"
        /\ UNCHANGED rejected
     \/ /\ ~isInitialized
        /\ xpc' = "threw"
        /\ rejected' = InitializationError
        /\ UNCHANGED isInitialized
  /\ UNCHANGED <<spec, functions, client, pc, wfpc, results, completedStages,
                 readyStages, stagePromises, thrown, caught, report, round,
                 dispatched, invoked, outcome, settled, stageMap, convertVars,
                 pairVars, instanceVars, apiVars, workflowResult>>

\* The validation of executeWorkflow: a spec that names a function missing
\* from the registry is rejected, otherwise WorkflowExecutor.execute is called.
ValidateWorkflow ==
  /\ xpc = "validate"
  /\ LET validation ==
           validateWorkflowFunctions([k \in 1..Len(spec) |-> spec[k].function])
     IN IF ~validation.valid
        THEN /\ xpc' = "threw"
             /\ rejected' = ValidationError(validation.missing)
             /\ UNCHANGED pc
        ELSE /\ xpc' = "execute"
             /\ pc' = "getClient"
             /\ UNCHANGED rejected
  /\ UNCHANGED <<spec, functions, client, wfpc, results, completedStages,
                 readyStages, stagePromises, thrown, caught, report, round,
                 dispatched, invoked, outcome, settled, stageMap, convertVars,
                 pairVars, instanceVars, apiVars, isInitialized, workflowResult>>

\* ExecuteWorkflowReturns that clears the registry when the run is over.
ExecuteWorkflowReturns_Clear ==
  /\ xpc = "execute"
  /\ pc = "returned"
  /\ xpc' = "returned"
  /\ workflowResult' =
       [status |-> IF report.status = "COMPLETED" THEN "COMPLETED" ELSE "FAILED",
        stages |-> report.stages,
        error |-> IF report.status = "FAILED" THEN report.error ELSE None]
  /\ functions' = <<>>
  /\ stageMap' = EmptyStageMap
  /\ UNCHANGED <<spec, client, pc, wfpc, results, completedStages,
                 readyStages, stagePromises, thrown, caught, report, round,
                 dispatched, invoked, outcome, settled, convertVars,
                 pairVars, instanceVars, apiVars, isInitialized, rejected>>

\* WorkflowExecutor.execute returned: executeWorkflow returns its WorkflowResult.
ExecuteWorkflowReturns ==
  /\ xpc = "execute"
  /\ pc = "returned"
  /\ xpc' = "returned"
  /\ workflowResult' =
       [status |-> IF report.status = "COMPLETED" THEN "COMPLETED" ELSE "FAILED",
        stages |-> report.stages,
        error |-> IF report.status = "FAILED" THEN report.error ELSE None]
  /\ UNCHANGED <<spec, functions, client, pc, wfpc, results, completedStages,
                 readyStages, stagePromises, thrown, caught, report, round,
                 dispatched, invoked, outcome, settled, stageMap, convertVars,
                 pairVars, instanceVars, apiVars, isInitialized, rejected>>

\* --------------------------------------------------------- specification
Init ==
  /\ spec \in WorkflowSpecs
  /\ functions = DecoratedFunctions
  /\ stageMap = DecoratedStageMap
  /\ current = 1 /\ parked = NoRun
  /\ lastCall = NoCall /\ methods = UndecoratedMethods /\ call = NoMethodCall
  /\ InstanceIdle
  /\ client = FALSE
  /\ pc = "getClient"
  /\ wfpc = "idle"
  /\ results = <<>>
  /\ completedStages = {}
  /\ readyStages = <<>>
  /\ stagePromises = <<>>
  /\ thrown = None
  /\ caught = None
  /\ report = NoReport
  /\ round = 0
  /\ dispatched = [i \in 1..Len(spec) |-> {}]
  /\ invoked = [i \in 1..Len(spec) |-> {}]
  /\ outcome = [i \in 1..Len(spec) |-> "none"]
  /\ settled = <<>>
  /\ isInitialized = FALSE
  /\ xpc = "idle"
  /\ workflowResult = NoResult
  /\ rejected = None
  /\ now = 0 /\ terminatedAt = 0
  /\ resultList = <<>> /\ conversions = <<>> /\ conversionTimes = <<>>

Next ==
  \/ GetClient
  \/ Connect
  \/ ClientStart
  \/ WorkflowBegin
  \/ \E k \in 1..MaxSize : k <= Len(stagePromises) /\ ExecutorReturns(k)
  \/ \E k \in 1..MaxSize : k <= Len(stagePromises) /\ ExecutorThrows(k)
  \/ RoundJoin
  \/ ResultResolves
  \/ ResultRejects

Spec == Init /\ [][Next]_vars

\* Every call that is awaited eventually returns or fails, and the event
\* loop runs every continuation that is ready.
FairSpec == Spec /\ WF_vars(Next)

\* A caller that either runs WorkflowExecutor.execute itself or goes through
\* XFlow.executeWorkflow, on an SDK that may be initialized already.
XFlowInit ==
  /\ spec \in WorkflowSpecs
  /\ functions = DecoratedFunctions
  /\ stageMap = DecoratedStageMap
  /\ current = 1 /\ parked = NoRun
  /\ lastCall = NoCall /\ methods = UndecoratedMethods /\ call = NoMethodCall
  /\ InstanceIdle
  /\ client = FALSE
  /\ \/ pc = "getClient" /\ xpc = "idle" /\ isInitialized = FALSE
     \/ pc = "idle" /\ xpc = "ensureInitialized" /\ isInitialized \in BOOLEAN
  /\ wfpc = "idle"
  /\ results = <<>>
  /\ completedStages = {}
  /\ readyStages = <<>>
  /\ stagePromises = <<>>
  /\ thrown = None
  /\ caught = None
  /\ report = NoReport
  /\ round = 0
  /\ dispatched = [i \in 1..Len(spec) |-> {}]
  /\ invoked = [i \in 1..Len(spec) |-> {}]
  /\ outcome = [i \in 1..Len(spec) |-> "none"]
  /\ settled = <<>>
  /\ workflowResult = NoResult
  /\ rejected = None
  /\ now = 0 /\ terminatedAt = 0
  /\ resultList = <<>> /\ conversions = <<>> /\ conversionTimes = <<>>

XFlowNext ==
  \/ EnsureInitialized
  \/ ValidateWorkflow
  \/ ExecuteWorkflowReturns
  \/ Next

XFlowSpec == XFlowInit /\ [][XFlowNext]_vars

\* ---------------------------------------------------- two concurrent runs
\* Two calls of WorkflowExecutor.execute on one executor run interleaved.
\* The parameters and local variables of a call (of execute and of the
\* workflow function it starts) belong to the call; this.client and the
\* registry belong to the process.  The run variables hold the call that
\* is running; the other call is suspended at an await.
RunState ==
  [spec |-> spec, pc |-> pc, wfpc |-> wfpc, results |-> results,
   completedStages |-> completedStages, readyStages |-> readyStages,
   stagePromises |-> stagePromises, thrown |-> thrown, caught |-> caught,
   report |-> report, round |-> round, dispatched |-> dispatched,
   invoked |-> invoked, outcome |-> outcome, settled |-> settled]

\* A call of execute on the stages s that has not started.
NewRun(s) ==
  [spec |-> s, pc |-> "getClient", wfpc |-> "idle", results |-> <<>>,
   completedStages |-> {}, readyStages |-> <<>>, stagePromises |-> <<>>,
   thrown |-> None, caught |-> None, report |-> NoReport, round |-> 0,
   dispatched |-> [i \in 1..Len(s) |-> {}],
   invoked |-> [i \in 1..Len(s) |-> {}],
   outcome |-> [i \in 1..Len(s) |-> "none"], settled |-> <<>>]

\* Switch for a completed set that is one object of the process.
Switch_SharedCompleted ==
  /\ parked' = RunState
  /\ current' = 3 - current
  /\ spec' = parked.spec
  /\ pc' = parked.pc
  /\ wfpc' = parked.wfpc
  /\ results' = parked.results
  /\ completedStages' = completedStages
  /\ readyStages' = parked.readyStages
  /\ stagePromises' = parked.stagePromises
  /\ thrown' = parked.thrown
  /\ caught' = parked.caught
  /\ report' = parked.report
  /\ round' = parked.round
  /\ dispatched' = parked.dispatched
  /\ invoked' = parked.invoked
  /\ outcome' = parked.outcome
  /\ settled' = parked.settled
  /\ UNCHANGED <<functions, stageMap, client, xflowVars, convertVars, apiVars, instanceVars>>

\* The running call is suspended at its await and the other call goes on.
Switch ==
  /\ parked' = RunState
  /\ current' = 3 - current
  /\ spec' = parked.spec
  /\ pc' = parked.pc
  /\ wfpc' = parked.wfpc
  /\ results' = parked.results
  /\ completedStages' = parked.completedStages
  /\ readyStages' = parked.readyStages
  /\ stagePromises' = parked.stagePromises
  /\ thrown' = parked.thrown
  /\ caught' = parked.caught
  /\ report' = parked.report
  /\ round' = parked.round
  /\ dispatched' = parked.dispatched
  /\ invoked' = parked.invoked
  /\ outcome' = parked.outcome
  /\ settled' = parked.settled
  /\ UNCHANGED <<functions, stageMap, client, xflowVars, convertVars, apiVars, instanceVars>>

\* The size of a spec, as WorkflowSpecs counts it.
RECURSIVE SizeUpTo(_, _)
SizeUpTo(s, k) ==
  IF k = 0 THEN 0
  ELSE SizeUpTo(s, k - 1) + BodySize(s[k])
       + (IF \E j \in 1..(k - 1) : s[j].id = s[k].id THEN 1 ELSE 0)

SpecSize(s) == SizeUpTo(s, Len(s))

\* Two calls on specs of at most MaxPairSize together.
TwoRunInit ==
  /\ spec \in {s \in WorkflowSpecs : SpecSize(s) <= MaxPairSize}
  /\ \E t \in {s \in WorkflowSpecs : SpecSize(s) <= MaxPairSize} :
       /\ SpecSize(spec) + SpecSize(t) <= MaxPairSize
       /\ parked = NewRun(t)
  /\ current = 1
  /\ lastCall = NoCall /\ methods = UndecoratedMethods /\ call = NoMethodCall
  /\ InstanceIdle
  /\ functions = DecoratedFunctions
  /\ stageMap = DecoratedStageMap
  /\ client = FALSE
  /\ pc = "getClient"
  /\ wfpc = "idle"
  /\ results = <<>>
  /\ completedStages = {}
  /\ readyStages = <<>>
  /\ stagePromises = <<>>
  /\ thrown = None
  /\ caught = None
  /\ report = NoReport
  /\ round = 0
  /\ dispatched = [i \in 1..Len(spec) |-> {}]
  /\ invoked = [i \in 1..Len(spec) |-> {}]
  /\ outcome = [i \in 1..Len(spec) |-> "none"]
  /\ settled = <<>>
  /\ isInitialized = FALSE
  /\ xpc = "idle"
  /\ workflowResult = NoResult
  /\ rejected = None
  /\ now = 0 /\ terminatedAt = 0
  /\ resultList = <<>> /\ conversions = <<>> /\ conversionTimes = <<>>

TwoRunNext == Next \/ Switch

TwoRunSpec == TwoRunInit /\ [][TwoRunNext]_vars

\* ------------------------------------ convertStageResults on its own
\* An InternalStageResult with its timestamps, as a stage callback makes it.
TimedResult(stage, status, startTime, endTime) ==
  [stageId |-> stage.id, status |-> status,
   result |-> IF status = "COMPLETED" THEN ActivityOutput(stage.function) ELSE None,
   error |-> IF status = "COMPLETED" THEN None ELSE ActivityErrorMsg,
   startTime |-> startTime, endTime |-> endTime,
   executedBy |-> IF status = "COMPLETED"
                  THEN StageName(getStageForFunction(stage.function))
                  ELSE "unknown"]

\* The result lists for the stages of a set S of positions: one result per
\* stage, in spec order, started at 0 and ended by the end of the run.
RECURSIVE TimedResultLists(_, _, _)
TimedResultLists(stages, S, end) ==
  IF S = {} THEN {<<>>}
  ELSE LET m == CHOOSE x \in S : \A y \in S : x <= y
       IN {<<TimedResult(stages[m], st, t[1], t[2])>> \o rest :
             st \in {"COMPLETED", "FAILED"},
             t \in {0} \X (0..end),
             rest \in TimedResultLists(stages, S \ {m}, end)}

\* The clock advances.
Tick ==
  /\ now < MaxClock
  /\ now' = now + 1
  /\ UNCHANGED <<spec, functions, client, pc, wfpc, results, completedStages,
                 readyStages, stagePromises, thrown, caught, report, round,
                 dispatched, invoked, outcome, settled, stageMap, xflowVars,
                 pairVars, instanceVars, apiVars, terminatedAt,
                 resultList, conversions, conversionTimes>>

\* convertStageResults is called on the result list.
Convert ==
  /\ Len(conversions) < 2
  /\ conversions' = Append(conversions, convertStageResultsAt(resultList, spec, now))
  /\ conversionTimes' = Append(conversionTimes, now)
  /\ UNCHANGED <<spec, functions, client, pc, wfpc, results, completedStages,
                 readyStages, stagePromises, thrown, caught, report, round,
                 dispatched, invoked, outcome, settled, stageMap, xflowVars,
                 pairVars, instanceVars, apiVars, now, terminatedAt,
                 resultList>>

\* A run of a spec with registered functions has ended at terminatedAt with
\* a result list for some or all of its stages.  (The conversion copies
\* dependsOn and does not read it: the specs are those without dependencies.)
ConvertInit ==
  /\ spec \in {s \in WorkflowSpecs :
                 /\ Len(s) <= MaxStages
                 /\ \A k \in 1..Len(s) :
                      /\ s[k].function \in {"f1", "f2"}
                      /\ Len(DepList(s[k])) = 0}
  /\ functions = DecoratedFunctions
  /\ stageMap = DecoratedStageMap
  /\ current = 1 /\ parked = NoRun
  /\ lastCall = NoCall /\ methods = UndecoratedMethods /\ call = NoMethodCall
  /\ InstanceIdle
  /\ client = TRUE
  /\ pc = "idle" /\ xpc = "idle" /\ wfpc = "idle"
  /\ isInitialized = FALSE
  /\ results = <<>>
  /\ completedStages = {}
  /\ readyStages = <<>>
  /\ stagePromises = <<>>
  /\ thrown = None
  /\ caught = None
  /\ report = NoReport
  /\ round = 0
  /\ dispatched = [i \in 1..Len(spec) |-> {}]
  /\ invoked = [i \in 1..Len(spec) |-> {}]
  /\ outcome = [i \in 1..Len(spec) |-> "none"]
  /\ settled = <<>>
  /\ workflowResult = NoResult
  /\ rejected = None
  /\ terminatedAt = 1
  /\ now = terminatedAt
  /\ resultList \in UNION {TimedResultLists(spec, S, terminatedAt) :
                             S \in SUBSET (1..Len(spec))}
  /\ conversions = <<>>
  /\ conversionTimes = <<>>

ConvertNext == Tick \/ Convert

ConvertSpec == ConvertInit /\ [][ConvertNext]_vars

\* ------------------------------------------------- the registry's methods
\* The names and the functions that are registered, and the worker tiers.
RegistryNames == {"f1", "f2", "f3", "executeStage1Activity"}
OriginalFunctions == {"implA", "implB"}
WorkerStages == {1, 2, 3}

StageDigit(stage) == <<"1", "2", "3">>[stage]

\* The lists of names passed to validateWorkflowFunctions.
NameLists == UNION {[1..n -> FunctionNames] : n \in 0..MaxArgs}

ConflictMsg(name, stage) ==
  <<"Function name conflict: '", name, "' is already registered for stage ",
    StageDigit(stage), ". Function names must be unique across all stages.">>

NotRegisteredMsg(functionName) ==
  <<"Function '", functionName, "' not found in registry">>

WrongStageMsg(functionName, registered, stage) ==
  <<"Function '", functionName, "' is registered for stage ",
    StageDigit(registered), ", but worker stage ", StageDigit(stage),
    " is trying to execute it">>

\* What a registered function does when it is called: it returns a value
\* or it throws.
FunctionResult(originalFunction) == <<"result of ", originalFunction>>
FunctionErrorMsg == <<"function failed">>

\* register without the test for a name conflict.
Register_Overwrite(name, stage, originalFunction) ==
  /\ name \in DOMAIN functions \/ Cardinality(DOMAIN functions) < MaxRegistered
  /\ functions' = [n \in DOMAIN functions \cup {name} |->
                     IF n = name THEN Registration(name, stage, originalFunction)
                     ELSE functions[n]]
  /\ stageMap' = [stageMap EXCEPT ![stage] = @ \cup {name}]
  /\ lastCall' = [op |-> "register", name |-> name, stage |-> stage,
                  originalFunction |-> originalFunction, threw |-> None]
  /\ UNCHANGED <<runVars, xflowVars, convertVars, pairVars, instanceVars, methods, call>>

\* XFlowRegistry.register: a name that is registered already is refused,
\* otherwise the registration is stored and the name joins its tier's set.
\* (A registry that is written holds at most MaxRegistered functions.)
Register(name, stage, originalFunction) ==
  /\ name \in DOMAIN functions \/ Cardinality(DOMAIN functions) < MaxRegistered
  /\ IF name \in DOMAIN functions
     THEN /\ lastCall' = [op |-> "register", name |-> name, stage |-> stage,
                          originalFunction |-> originalFunction,
                          threw |-> ConflictMsg(name, functions[name].stage)]
          /\ UNCHANGED <<functions, stageMap>>
     ELSE /\ functions' = [n \in DOMAIN functions \cup {name} |->
                             IF n = name
                             THEN Registration(name, stage, originalFunction)
                             ELSE functions[n]]
          /\ stageMap' = [stageMap EXCEPT ![stage] = @ \cup {name}]
          /\ lastCall' = [op |-> "register", name |-> name, stage |-> stage,
                          originalFunction |-> originalFunction, threw |-> None]
  /\ UNCHANGED <<runVars, xflowVars, convertVars, pairVars, instanceVars, methods, call>>

\* clear that empties the function map only.
Clear_FunctionsOnly ==
  /\ functions' = <<>>
  /\ lastCall' = [op |-> "clear"]
  /\ UNCHANGED stageMap
  /\ UNCHANGED <<runVars, xflowVars, convertVars, pairVars, instanceVars, methods, call>>

\* XFlowRegistry.clear
Clear ==
  /\ functions' = <<>>
  /\ stageMap' = [s \in DOMAIN stageMap |-> {}]
  /\ lastCall' = [op |-> "clear"]
  /\ UNCHANGED <<runVars, xflowVars, convertVars, pairVars, instanceVars, methods, call>>

\* XFlowRegistry.getFunctionsByStage: the registrations of the names in the
\* tier's set (a name without a registration is filtered out).
getFunctionsByStage(stage) ==
  LET functionNames == IF stage \in DOMAIN stageMap THEN stageMap[stage] ELSE {}
  IN {functions[name] : name \in functionNames \cap DOMAIN functions}

\* XFlowRegistry.getAllFunctions
getAllFunctions == {functions[name] : name \in DOMAIN functions}

\* The key of the dispatcher in the activities of a tier, and the
\* dispatcher that createStageExecutor makes for the tier.
DispatcherKey(stage) ==
  <<"executeStage1Activity", "executeStage2Activity", "executeStage3Activity">>[stage]

StageExecutorOf(stage) == <<"stageExecutor1", "stageExecutor2", "stageExecutor3">>[stage]

\* XFlowRegistry.generateActivitiesForStage: an entry for each function of
\* the tier, then the entry of the dispatcher is assigned.
generateActivitiesForStage(stage) ==
  LET stageFunctions == getFunctionsByStage(stage)
      names == {f.name : f \in stageFunctions}
  IN [key \in names \cup {DispatcherKey(stage)} |->
        IF key = DispatcherKey(stage)
        THEN StageExecutorOf(stage)
        ELSE (CHOOSE f \in stageFunctions : f.name = key).originalFunction]

\* XFlowRegistry.getStats
getStats ==
  [totalFunctions |-> Cardinality(DOMAIN functions),
   byStage |-> [stage1 |-> Cardinality(stageMap[1]),
                stage2 |-> Cardinality(stageMap[2]),
                stage3 |-> Cardinality(stageMap[3])],
   functions |-> {[name |-> f.name, stage |-> f.stage] : f \in getAllFunctions}]

\* A call of getFunctionsByStage.
GetFunctionsByStage(stage) ==
  /\ lastCall' = [op |-> "getFunctionsByStage", stage |-> stage,
                  result |-> getFunctionsByStage(stage)]
  /\ UNCHANGED <<functions, stageMap>>
  /\ UNCHANGED <<runVars, xflowVars, convertVars, pairVars, instanceVars, methods, call>>

\* A call of getStats.
GetStats ==
  /\ lastCall' = [op |-> "getStats", result |-> getStats]
  /\ UNCHANGED <<functions, stageMap>>
  /\ UNCHANGED <<runVars, xflowVars, convertVars, pairVars, instanceVars, methods, call>>

\* A call of validateWorkflowFunctions.
ValidateWorkflowFunctions(functionNames) ==
  /\ lastCall' = [op |-> "validateWorkflowFunctions", names |-> functionNames,
                  result |-> validateWorkflowFunctions(functionNames)]
  /\ UNCHANGED <<functions, stageMap>>
  /\ UNCHANGED <<runVars, xflowVars, convertVars, pairVars, instanceVars, methods, call>>

\* A call of generateActivitiesForStage.
GenerateActivitiesForStage(stage) ==
  /\ lastCall' = [op |-> "generateActivitiesForStage", stage |-> stage,
                  result |-> generateActivitiesForStage(stage)]
  /\ UNCHANGED <<functions, stageMap>>
  /\ UNCHANGED <<runVars, xflowVars, convertVars, pairVars, instanceVars, methods, call>>

\* StageExecutor without the test of the tier.
StageExecutor_AnyStage(stage, functionName) ==
  /\ IF functionName \notin DOMAIN functions
     THEN lastCall' = [op |-> "executeStageActivity", stage |-> stage,
                       name |-> functionName, invoked |-> <<>>,
                       threw |-> NotRegisteredMsg(functionName), result |-> None]
     ELSE \/ lastCall' = [op |-> "executeStageActivity", stage |-> stage,
                          name |-> functionName,
                          invoked |-> <<functions[functionName].originalFunction>>,
                          threw |-> None,
                          result |-> FunctionResult(functions[functionName].originalFunction)]
          \/ lastCall' = [op |-> "executeStageActivity", stage |-> stage,
                          name |-> functionName,
                          invoked |-> <<functions[functionName].originalFunction>>,
                          threw |-> FunctionErrorMsg, result |-> None]
  /\ UNCHANGED <<functions, stageMap>>
  /\ UNCHANGED <<runVars, xflowVars, convertVars, pairVars, instanceVars, methods, call>>

\* A call of the dispatcher that createStageExecutor made for the tier (the
\* entry executeStage{stage}Activity of the tier's activities): the function
\* is looked up when the dispatcher is called; an unregistered name and a
\* name of another tier are refused, otherwise the original function is
\* called and its outcome is the dispatcher's.
StageExecutor(stage, functionName) ==
  /\ IF functionName \notin DOMAIN functions
     THEN lastCall' = [op |-> "executeStageActivity", stage |-> stage,
                       name |-> functionName, invoked |-> <<>>,
                       threw |-> NotRegisteredMsg(functionName), result |-> None]
     ELSE IF functions[functionName].stage # stage
     THEN lastCall' = [op |-> "executeStageActivity", stage |-> stage,
                       name |-> functionName, invoked |-> <<>>,
                       threw |-> WrongStageMsg(functionName,
                                               functions[functionName].stage, stage),
                       result |-> None]
     ELSE \/ lastCall' = [op |-> "executeStageActivity", stage |-> stage,
                          name |-> functionName,
                          invoked |-> <<functions[functionName].originalFunction>>,
                          threw |-> None,
                          result |-> FunctionResult(functions[functionName].originalFunction)]
          \/ lastCall' = [op |-> "executeStageActivity", stage |-> stage,
                          name |-> functionName,
                          invoked |-> <<functions[functionName].originalFunction>>,
                          threw |-> FunctionErrorMsg, result |-> None]
  /\ UNCHANGED <<functions, stageMap>>
  /\ UNCHANGED <<runVars, xflowVars, convertVars, pairVars, instanceVars, methods, call>>

\* A new registry; no workflow runs.
RegistryInit ==
  /\ functions = <<>>
  /\ stageMap = EmptyStageMap
  /\ lastCall = NoCall /\ methods = UndecoratedMethods /\ call = NoMethodCall
  /\ InstanceIdle
  /\ spec = <<>>
  /\ current = 1 /\ parked = NoRun
  /\ client = FALSE
  /\ pc = "idle" /\ xpc = "idle" /\ wfpc = "idle"
  /\ isInitialized = FALSE
  /\ results = <<>>
  /\ completedStages = {}
  /\ readyStages = <<>>
  /\ stagePromises = <<>>
  /\ thrown = None
  /\ caught = None
  /\ report = NoReport
  /\ round = 0
  /\ dispatched = <<>>
  /\ invoked = <<>>
  /\ outcome = <<>>
  /\ settled = <<>>
  /\ workflowResult = NoResult
  /\ rejected = None
  /\ now = 0 /\ terminatedAt = 0
  /\ resultList = <<>> /\ conversions = <<>> /\ conversionTimes = <<>>

RegistryNext ==
  \/ \E name \in RegistryNames, stage \in WorkerStages,
        originalFunction \in OriginalFunctions :
          Register(name, stage, originalFunction)
  \/ Clear
  \/ \E stage \in WorkerStages : GetFunctionsByStage(stage)
  \/ GetStats
  \/ \E functionNames \in NameLists : ValidateWorkflowFunctions(functionNames)
  \/ \E stage \in WorkerStages : GenerateActivitiesForStage(stage)
  \/ \E stage \in WorkerStages, functionName \in RegistryNames \cup FunctionNames :
          StageExecutor(stage, functionName)

RegistrySpec == RegistryInit /\ [][RegistryNext]_vars

\* -------------------------------------------------------- xflowFunction
\* XFlowHooks and XFlowFunctionOptions: the name ("" when it is missing or
\* empty), the stage (0 when it is missing; 4 is out of range) and the
\* hooks that are set.
HookNames == {"onStart", "onSuccess", "onFailure", "onFinish"}

DecoratorOptions == [name : {"", "f1", "g"}, stage : 0..4, hooks : SUBSET HookNames]

StageText(stage) == <<"0", "1", "2", "3", "4">>[stage + 1]

InvalidStageMsg(stage) == <<"Invalid stage: ", StageText(stage), ". Must be 1, 2, or 3.">>

RegisterFailedMsg(functionName, error) ==
  <<"Failed to register function '", functionName, "': ", "Error: ">> \o error

HookErrorMsg(hook) == <<"hook failed: ", hook>>

\* The value the original function returns for an argument.
OriginalResult(originalFunction, arg) == <<"result of ", originalFunction, arg>>

\* An event of a call: a hook or the original function ran, and returned
\* or threw.
Event(event, threw) == [event |-> event, threw |-> threw]

\* Decorate that registers under the method name whatever options.name is.
Decorate_MethodName(key, options) ==
  /\ ~methods[key].wrapped
  /\ LET originalFunction == methods[key].original
         functionName == key
     IN IF options.stage = 0 \/ options.stage < 1 \/ options.stage > 3
        THEN /\ lastCall' = [op |-> "xflowFunction", key |-> key, options |-> options,
                             threw |-> InvalidStageMsg(options.stage)]
             /\ UNCHANGED <<functions, stageMap, methods>>
        ELSE IF functionName \in DOMAIN functions
        THEN /\ lastCall' = [op |-> "xflowFunction", key |-> key, options |-> options,
                             threw |-> RegisterFailedMsg(functionName,
                                         ConflictMsg(functionName,
                                                     functions[functionName].stage))]
             /\ UNCHANGED <<functions, stageMap, methods>>
        ELSE /\ functions' = [n \in DOMAIN functions \cup {functionName} |->
                                IF n = functionName
                                THEN Registration(functionName, options.stage,
                                                  originalFunction)
                                ELSE functions[n]]
             /\ stageMap' = [stageMap EXCEPT ![options.stage] = @ \cup {functionName}]
             /\ methods' = [methods EXCEPT ![key] =
                              [original |-> originalFunction, wrapped |-> TRUE,
                               name |-> functionName, stage |-> options.stage,
                               hooks |-> options.hooks]]
             /\ lastCall' = [op |-> "xflowFunction", key |-> key, options |-> options,
                             threw |-> None]
  /\ UNCHANGED <<runVars, xflowVars, convertVars, pairVars, instanceVars, call>>

\* xflowFunction(options)(target, propertyKey, descriptor): the stage is
\* validated, the method's function is registered under options.name or
\* the method name (a refused registration is thrown on), and
\* descriptor.value becomes the wrapper.
Decorate(key, options) ==
  /\ ~methods[key].wrapped
  /\ LET originalFunction == methods[key].original
         functionName == IF options.name = "" THEN key ELSE options.name
     IN IF options.stage = 0 \/ options.stage < 1 \/ options.stage > 3
        THEN /\ lastCall' = [op |-> "xflowFunction", key |-> key, options |-> options,
                             threw |-> InvalidStageMsg(options.stage)]
             /\ UNCHANGED <<functions, stageMap, methods>>
        ELSE IF functionName \in DOMAIN functions
        THEN /\ lastCall' = [op |-> "xflowFunction", key |-> key, options |-> options,
                             threw |-> RegisterFailedMsg(functionName,
                                         ConflictMsg(functionName,
                                                     functions[functionName].stage))]
             /\ UNCHANGED <<functions, stageMap, methods>>
        ELSE /\ functions' = [n \in DOMAIN functions \cup {functionName} |->
                                IF n = functionName
                                THEN Registration(functionName, options.stage,
                                                  originalFunction)
                                ELSE functions[n]]
             /\ stageMap' = [stageMap EXCEPT ![options.stage] = @ \cup {functionName}]
             /\ methods' = [methods EXCEPT ![key] =
                              [original |-> originalFunction, wrapped |-> TRUE,
                               name |-> functionName, stage |-> options.stage,
                               hooks |-> options.hooks]]
             /\ lastCall' = [op |-> "xflowFunction", key |-> key, options |-> options,
                             threw |-> None]
  /\ UNCHANGED <<runVars, xflowVars, convertVars, pairVars, instanceVars, call>>

\* The decorated method is called: the wrapper starts.
CallMethod(key, arg) ==
  /\ methods[key].wrapped
  /\ call.hpc \in {"idle", "done"}
  /\ call' = [hpc |-> "onStart", key |-> key, arg |-> arg, trace |-> <<>>,
              result |-> None, error |-> None, completion |-> "none"]
  /\ UNCHANGED <<functions, stageMap, lastCall, methods>>
  /\ UNCHANGED <<runVars, xflowVars, convertVars, pairVars, instanceVars>>

\* if (hooks.onStart) await hooks.onStart(context)
HookStart ==
  /\ call.hpc = "onStart"
  /\ IF "onStart" \in methods[call.key].hooks
     THEN \/ call' = [call EXCEPT !.hpc = "original",
                                  !.trace = Append(@, Event("onStart", FALSE))]
          \/ call' = [call EXCEPT !.hpc = "catch",
                                  !.trace = Append(@, Event("onStart", TRUE)),
                                  !.error = HookErrorMsg("onStart")]
     ELSE call' = [call EXCEPT !.hpc = "original"]
  /\ UNCHANGED <<functions, stageMap, lastCall, methods>>
  /\ UNCHANGED <<runVars, xflowVars, convertVars, pairVars, instanceVars>>

\* const result = await originalFunction.apply(this, args)
CallOriginal ==
  /\ call.hpc = "original"
  /\ \/ call' = [call EXCEPT !.hpc = "onSuccess",
                              !.trace = Append(@, Event("original", FALSE)),
                              !.result = OriginalResult(methods[call.key].original,
                                                        call.arg)]
     \/ call' = [call EXCEPT !.hpc = "catch",
                              !.trace = Append(@, Event("original", TRUE)),
                              !.error = FunctionErrorMsg]
  /\ UNCHANGED <<functions, stageMap, lastCall, methods>>
  /\ UNCHANGED <<runVars, xflowVars, convertVars, pairVars, instanceVars>>

\* if (hooks.onSuccess) await hooks.onSuccess(context); return result
HookSuccess ==
  /\ call.hpc = "onSuccess"
  /\ IF "onSuccess" \in methods[call.key].hooks
     THEN \/ call' = [call EXCEPT !.hpc = "finally",
                                  !.trace = Append(@, Event("onSuccess", FALSE)),
                                  !.completion = "return"]
          \/ call' = [call EXCEPT !.hpc = "catch",
                                  !.trace = Append(@, Event("onSuccess", TRUE)),
                                  !.error = HookErrorMsg("onSuccess")]
     ELSE call' = [call EXCEPT !.hpc = "finally", !.completion = "return"]
  /\ UNCHANGED <<functions, stageMap, lastCall, methods>>
  /\ UNCHANGED <<runVars, xflowVars, convertVars, pairVars, instanceVars>>

\* The catch block without the try around onFailure: an error of the hook
\* leaves the catch block in place of the caught error.
HookFailure_Unguarded ==
  /\ call.hpc = "catch"
  /\ IF "onFailure" \in methods[call.key].hooks
     THEN \/ call' = [call EXCEPT !.hpc = "finally",
                                  !.trace = Append(@, Event("onFailure", FALSE)),
                                  !.completion = "throw"]
          \/ call' = [call EXCEPT !.hpc = "finally",
                                  !.trace = Append(@, Event("onFailure", TRUE)),
                                  !.error = HookErrorMsg("onFailure"),
                                  !.completion = "throw"]
     ELSE call' = [call EXCEPT !.hpc = "finally", !.completion = "throw"]
  /\ UNCHANGED <<functions, stageMap, lastCall, methods>>
  /\ UNCHANGED <<runVars, xflowVars, convertVars, pairVars, instanceVars>>

\* The catch block: onFailure runs if it is set, an error it throws is
\* logged, and the caught error is thrown on.
HookFailure ==
  /\ call.hpc = "catch"
  /\ IF "onFailure" \in methods[call.key].hooks
     THEN \E threw \in BOOLEAN :
            call' = [call EXCEPT !.hpc = "finally",
                                 !.trace = Append(@, Event("onFailure", threw)),
                                 !.completion = "throw"]
     ELSE call' = [call EXCEPT !.hpc = "finally", !.completion = "throw"]
  /\ UNCHANGED <<functions, stageMap, lastCall, methods>>
  /\ UNCHANGED <<runVars, xflowVars, convertVars, pairVars, instanceVars>>

\* HookFinish as the last statement of the try block: skipped on a throw.
HookFinish_OnReturn ==
  /\ call.hpc = "finally"
  /\ IF "onFinish" \in methods[call.key].hooks /\ call.completion = "return"
     THEN \E threw \in BOOLEAN :
            call' = [call EXCEPT !.hpc = "done",
                                 !.trace = Append(@, Event("onFinish", threw))]
     ELSE call' = [call EXCEPT !.hpc = "done"]
  /\ UNCHANGED <<functions, stageMap, lastCall, methods>>
  /\ UNCHANGED <<runVars, xflowVars, convertVars, pairVars, instanceVars>>

\* The finally block: onFinish runs if it is set, an error it throws is
\* logged, and the call completes as the try or the catch block left it.
HookFinish ==
  /\ call.hpc = "finally"
  /\ IF "onFinish" \in methods[call.key].hooks
     THEN \E threw \in BOOLEAN :
            call' = [call EXCEPT !.hpc = "done",
                                 !.trace = Append(@, Event("onFinish", threw))]
     ELSE call' = [call EXCEPT !.hpc = "done"]
  /\ UNCHANGED <<functions, stageMap, lastCall, methods>>
  /\ UNCHANGED <<runVars, xflowVars, convertVars, pairVars, instanceVars>>

\* The registry holds "f1" and "f2"; the class's method is not decorated.
DecoratorInit ==
  /\ functions = DecoratedFunctions
  /\ stageMap = DecoratedStageMap
  /\ lastCall = NoCall /\ methods = UndecoratedMethods /\ call = NoMethodCall
  /\ InstanceIdle
  /\ spec = <<>>
  /\ current = 1 /\ parked = NoRun
  /\ client = FALSE
  /\ pc = "idle" /\ xpc = "idle" /\ wfpc = "idle"
  /\ isInitialized = FALSE
  /\ results = <<>>
  /\ completedStages = {}
  /\ readyStages = <<>>
  /\ stagePromises = <<>>
  /\ thrown = None
  /\ caught = None
  /\ report = NoReport
  /\ round = 0
  /\ dispatched = <<>>
  /\ invoked = <<>>
  /\ outcome = <<>>
  /\ settled = <<>>
  /\ workflowResult = NoResult
  /\ rejected = None
  /\ now = 0 /\ terminatedAt = 0
  /\ resultList = <<>> /\ conversions = <<>> /\ conversionTimes = <<>>

DecoratorNext ==
  \/ \E key \in MethodKeys, options \in DecoratorOptions : Decorate(key, options)
  \/ \E key \in MethodKeys, arg \in 0..MaxArg : CallMethod(key, arg)
  \/ HookStart
  \/ CallOriginal
  \/ HookSuccess
  \/ HookFailure
  \/ HookFinish

DecoratorSpec == DecoratorInit /\ [][DecoratorNext]_vars

\* ------------------------------------------------- the ConnectionManager
\* getConnection up to its first await: the stored connection is returned
\* if there is one; otherwise the caller awaits buildConnectionOptions and
\* NativeConnection.connect, and this.connection is not written before
\* they have resolved.
GetConnection(c) ==
  /\ callers[c].cpc = "idle"
  /\ IF connection # 0
     THEN /\ callers' = [callers EXCEPT ![c] =
               [op |-> "getConnection", cpc |-> "returned", got |-> connection]]
          /\ connectionLog' = [connectionLog EXCEPT !.received = @ \cup {connection}]
     ELSE /\ callers' = [callers EXCEPT ![c] =
               [op |-> "getConnection", cpc |-> "connecting", got |-> 0]]
          /\ UNCHANGED connectionLog
  /\ UNCHANGED <<connection, workers, created, apiCall, externalQueues>>
  /\ UNCHANGED <<functions, stageMap, runVars, xflowVars, convertVars, pairVars, apiVars>>

\* NativeConnection.connect resolves with a new connection object, which
\* is stored in this.connection and returned.
ConnectResolves(c) ==
  /\ callers[c].cpc = "connecting"
  /\ connectionLog.total < MaxConnections
  /\ LET object == connectionLog.total + 1 IN
     /\ connection' = object
     /\ callers' = [callers EXCEPT ![c].cpc = "returned", ![c].got = object]
     /\ connectionLog' = [created |-> connectionLog.created \cup {object},
                          received |-> connectionLog.received \cup {object},
                          total |-> object]
  /\ UNCHANGED <<workers, created, apiCall, externalQueues>>
  /\ UNCHANGED <<functions, stageMap, runVars, xflowVars, convertVars, pairVars, apiVars>>

\* buildConnectionOptions or NativeConnection.connect rejects: getConnection
\* throws and this.connection stays as it is.
ConnectRejects(c) ==
  /\ callers[c].cpc = "connecting"
  /\ callers' = [callers EXCEPT ![c].cpc = "threw"]
  /\ UNCHANGED <<connection, connectionLog, workers, created, apiCall, externalQueues>>
  /\ UNCHANGED <<functions, stageMap, runVars, xflowVars, convertVars, pairVars, apiVars>>

\* close up to its await: with a connection stored, connection.close() is
\* awaited; without one close returns.  The log starts again at a close.
Close(c) ==
  /\ callers[c].cpc = "idle"
  /\ callers' = [callers EXCEPT ![c] =
       [op |-> "close", cpc |-> IF connection # 0 THEN "closing" ELSE "returned",
        got |-> connection]]
  /\ connectionLog' = [connectionLog EXCEPT !.created = {}, !.received = {}]
  /\ UNCHANGED <<connection, workers, created, apiCall, externalQueues>>
  /\ UNCHANGED <<functions, stageMap, runVars, xflowVars, convertVars, pairVars, apiVars>>

\* connection.close() resolves and this.connection is set to null, or it
\* rejects and close throws.
CloseSettles(c) ==
  /\ callers[c].cpc = "closing"
  /\ \/ /\ connection' = 0
        /\ callers' = [callers EXCEPT ![c].cpc = "returned"]
     \/ /\ callers' = [callers EXCEPT ![c].cpc = "threw"]
        /\ UNCHANGED connection
  /\ UNCHANGED <<connectionLog, workers, created, apiCall, externalQueues>>
  /\ UNCHANGED <<functions, stageMap, runVars, xflowVars, convertVars, pairVars, apiVars>>

\* The caller has its result and may call again.
CallerDone(c) ==
  /\ callers[c].cpc \in {"returned", "threw"}
  /\ callers' = [callers EXCEPT ![c] = NoCaller]
  /\ UNCHANGED <<connection, connectionLog, workers, created, apiCall, externalQueues>>
  /\ UNCHANGED <<functions, stageMap, runVars, xflowVars, convertVars, pairVars, apiVars>>

ConnectionNext ==
  \/ \E c \in Callers : GetConnection(c)
  \/ \E c \in Callers : ConnectResolves(c)
  \/ \E c \in Callers : ConnectRejects(c)
  \/ \E c \in Callers : Close(c)
  \/ \E c \in Callers : CloseSettles(c)
  \/ \E c \in Callers : CallerDone(c)

\* A ConnectionManager without a connection and callers that may overlap.
ConnectionSpec == DecoratorInit /\ [][ConnectionNext]_vars

\* ------------------------------------------------------ the XFlow instance
\* One XFlow instance whose methods are called one after the other, while
\* the workers it started run and may crash at any time.
\* WorkerConfig.taskQueuePrefix, and WorkerConfig.stage as the list of
\* tiers startWorkers goes through: 'all' is [1, 2, 3], and the tier that
\* callers start on its own is tier 1.
Prefixes == {"xflow", "custom"}
StageLists == {<<1, 2, 3>>, <<1>>}

\* `${config.taskQueuePrefix}-stage${stage}-queue` of startWorkerStage.
WorkerQueue(prefix, stage) == <<prefix, "-stage", StageDigit(stage), "-queue">>

\* `xflow-stage${workerStage}-queue` of executeOnWorkerStage.
DispatchQueue(workerStage) == <<"xflow", "-stage", StageDigit(workerStage), "-queue">>

\* 'xflow-orchestration-queue', the task queue of client.start.
OrchestrationQueue == <<"xflow", "-orchestration-queue">>

\* The specs handed to executeWorkflow: without stages, and with one
\* stage on a function of tier 1.
SubmittedSpecs == {<<>>, <<[id |-> "a", function |-> "f1", dependsOn |-> {}]>>}

\* `Worker startup failed: ${error}` of startWorkers.
WorkerStartupError == <<"Error: ", "Worker startup failed: ", "Error: worker">>

\* A registry with a function on every tier.
AllTierFunctions ==
  [n \in {"f1", "f2", "f3"} |->
     IF n = "f1" THEN Registration("f1", 1, "implA")
     ELSE IF n = "f2" THEN Registration("f2", 2, "implB")
     ELSE Registration("f3", 3, "implA")]

AllTierStageMap == [s \in {1, 2, 3} |-> {<<"f1", "f2", "f3">>[s]}]

\* XFlow.getWorkerStatus
getWorkerStatus ==
  LET running == {s \in {1, 2, 3} : workers[s] # 0} IN
  [running |-> running, stopped |-> {s \in {1, 2, 3} : s \notin running}, total |-> 3]

\* The task queues some running worker polls: those of the workers this
\* instance started and those of workers of other processes.
PolledQueues ==
  externalQueues \cup
    {created[w].taskQueue : w \in {v \in 1..Len(created) : created[v].state = "running"}}

\* await xflow.initialize()
CallInitialize ==
  /\ apiCall.apc = "idle"
  /\ apiCall' = [NoApiCall EXCEPT !.op = "initialize", !.apc = "initialize",
                                  !.initializedBefore = isInitialized]
  /\ UNCHANGED <<connection, connectionLog, callers, workers, created, externalQueues>>
  /\ UNCHANGED <<functions, stageMap, runVars, xflowVars, convertVars, pairVars, apiVars>>

\* await xflow.startWorkers({stage, taskQueuePrefix}); the workers it may
\* create are within MaxWorkers.
CallStartWorkers(stages, prefix) ==
  /\ apiCall.apc = "idle"
  /\ Len(created) + Len(stages) <= MaxWorkers
  /\ apiCall' = [NoApiCall EXCEPT !.op = "startWorkers", !.apc = "ensureInitialized",
                                  !.stages = stages, !.prefix = prefix,
                                  !.initializedBefore = isInitialized]
  /\ UNCHANGED <<connection, connectionLog, callers, workers, created, externalQueues>>
  /\ UNCHANGED <<functions, stageMap, runVars, xflowVars, convertVars, pairVars, apiVars>>

\* await xflow.executeWorkflow(spec), once per behaviour.
CallExecuteWorkflow ==
  /\ apiCall.apc = "idle"
  /\ xpc = "idle"
  /\ pc = "idle"
  /\ apiCall' = [NoApiCall EXCEPT !.op = "executeWorkflow", !.apc = "ensureInitialized",
                                  !.initializedBefore = isInitialized]
  /\ UNCHANGED <<connection, connectionLog, callers, workers, created, externalQueues>>
  /\ UNCHANGED <<functions, stageMap, runVars, xflowVars, convertVars, pairVars, apiVars>>

\* The call goes on after initialize: initialize returns, startWorkers
\* starts its tiers, executeWorkflow validates the spec.
Initialized(tested) ==
  /\ apiCall' = [apiCall EXCEPT
       !.tested = tested,
       !.apc = IF apiCall.op = "initialize" THEN "done"
               ELSE IF apiCall.op = "startWorkers" THEN "startStage" ELSE "execute"]
  /\ xpc' = IF apiCall.op = "executeWorkflow" THEN "validate" ELSE xpc
  /\ UNCHANGED rejected

\* testConnection resolves: getConnection returned the stored connection,
\* or created one and stored it.
TestConnectionResolves ==
  IF connection # 0
  THEN UNCHANGED <<connection, connectionLog>>
  ELSE LET object == connectionLog.total + 1 IN
       /\ connection' = object
       /\ connectionLog' = [created |-> connectionLog.created \cup {object},
                            received |-> connectionLog.received \cup {object},
                            total |-> object]

\* initialize without the test of isInitialized: every call tests the
\* connection.
InitializeStep_Retest ==
  /\ apiCall.apc \in {"initialize", "ensureInitialized"}
  /\ \/ isInitialized' = TRUE /\ Initialized(TRUE) /\ TestConnectionResolves
     \/ /\ apiCall' = [apiCall EXCEPT !.tested = TRUE, !.apc = "done",
                                      !.error = InitializationError]
        /\ xpc' = IF apiCall.op = "executeWorkflow" THEN "threw" ELSE xpc
        /\ rejected' = IF apiCall.op = "executeWorkflow"
                       THEN InitializationError ELSE rejected
        /\ UNCHANGED <<isInitialized, connection, connectionLog>>
  /\ UNCHANGED workflowResult
  /\ UNCHANGED <<callers, workers, created, externalQueues>>
  /\ UNCHANGED <<functions, stageMap, runVars, convertVars, pairVars, apiVars>>

\* initialize, called directly or through ensureInitialized: it returns at
\* once when isInitialized is set; otherwise testConnection is awaited, and
\* isInitialized is set when it resolves, or the call throws when it rejects.
InitializeStep ==
  /\ apiCall.apc \in {"initialize", "ensureInitialized"}
  /\ IF isInitialized
     THEN Initialized(FALSE) /\ UNCHANGED <<isInitialized, connection, connectionLog>>
     ELSE \/ isInitialized' = TRUE /\ Initialized(TRUE) /\ TestConnectionResolves
          \/ /\ apiCall' = [apiCall EXCEPT !.tested = TRUE, !.apc = "done",
                                           !.error = InitializationError]
             /\ xpc' = IF apiCall.op = "executeWorkflow" THEN "threw" ELSE xpc
             /\ rejected' = IF apiCall.op = "executeWorkflow"
                            THEN InitializationError ELSE rejected
             /\ UNCHANGED <<isInitialized, connection, connectionLog>>
  /\ UNCHANGED workflowResult
  /\ UNCHANGED <<callers, workers, created, externalQueues>>
  /\ UNCHANGED <<functions, stageMap, runVars, convertVars, pairVars, apiVars>>

\* startWorkerStage for the next tier of the call: a tier without functions
\* is skipped; otherwise createWorker resolves, the worker is stored under
\* its tier in this.workers and run, or createWorker rejects and
\* startWorkers throws.
StartWorkerStage ==
  /\ apiCall.apc = "startStage"
  /\ apiCall.stages # <<>>
  /\ LET stage == Head(apiCall.stages) IN
     IF getFunctionsByStage(stage) = {}
     THEN /\ apiCall' = [apiCall EXCEPT !.stages = Tail(@)]
          /\ UNCHANGED <<workers, created>>
     ELSE \/ /\ created' = Append(created,
                  [stage |-> stage,
                   taskQueue |-> WorkerQueue(apiCall.prefix, stage),
                   state |-> "running"])
             /\ workers' = [workers EXCEPT ![stage] = Len(created) + 1]
             /\ apiCall' = [apiCall EXCEPT !.stages = Tail(@)]
          \/ /\ apiCall' = [apiCall EXCEPT !.apc = "done", !.error = WorkerStartupError]
             /\ UNCHANGED <<workers, created>>
  /\ UNCHANGED <<connection, connectionLog, callers, externalQueues>>
  /\ UNCHANGED <<functions, stageMap, runVars, xflowVars, convertVars, pairVars, apiVars>>

\* Every tier of the call has been gone through: startWorkers returns.
StartWorkersReturns ==
  /\ apiCall.apc = "startStage"
  /\ apiCall.stages = <<>>
  /\ apiCall' = [apiCall EXCEPT !.apc = "done"]
  /\ UNCHANGED <<connection, connectionLog, callers, workers, created, externalQueues>>
  /\ UNCHANGED <<functions, stageMap, runVars, xflowVars, convertVars, pairVars, apiVars>>

\* worker.run() of the worker w rejects: the handler deletes the key of
\* the worker's tier from this.workers.
WorkerCrashes(w) ==
  /\ created[w].state = "running"
  /\ created' = [created EXCEPT ![w].state = "crashed"]
  /\ workers' = [workers EXCEPT ![created[w].stage] = 0]
  /\ UNCHANGED <<connection, connectionLog, callers, apiCall, externalQueues>>
  /\ UNCHANGED <<functions, stageMap, runVars, xflowVars, convertVars, pairVars, apiVars>>

\* xflow.shutdown(): shutdown is requested on every worker in this.workers
\* and the map is cleared.
Shutdown ==
  /\ apiCall.apc = "idle"
  /\ created' = [w \in 1..Len(created) |->
       IF \E s \in {1, 2, 3} : workers[s] = w
       THEN [created[w] EXCEPT !.state = "shutdown"] ELSE created[w]]
  /\ workers' = NoWorkers
  /\ apiCall' = [NoApiCall EXCEPT !.op = "shutdown", !.apc = "done"]
  /\ UNCHANGED <<connection, connectionLog, callers, externalQueues>>
  /\ UNCHANGED <<functions, stageMap, runVars, xflowVars, convertVars, pairVars, apiVars>>

\* executeWorkflow has returned its WorkflowResult or thrown.
ExecuteWorkflowDone ==
  /\ apiCall.op = "executeWorkflow"
  /\ apiCall.apc = "execute"
  /\ xpc \in {"returned", "threw"}
  /\ apiCall' = [apiCall EXCEPT !.apc = "done",
                                !.error = IF xpc = "threw" THEN rejected ELSE <<>>]
  /\ UNCHANGED <<connection, connectionLog, callers, workers, created, externalQueues>>
  /\ UNCHANGED <<functions, stageMap, runVars, xflowVars, convertVars, pairVars, apiVars>>

\* The caller has the result of its call and may call again.
CallReturns ==
  /\ apiCall.apc = "done"
  /\ apiCall' = NoApiCall
  /\ UNCHANGED <<connection, connectionLog, callers, workers, created, externalQueues>>
  /\ UNCHANGED <<functions, stageMap, runVars, xflowVars, convertVars, pairVars, apiVars>>

\* The workflow is picked up by a worker that polls the task queue on
\* which client.start put it.
PolledWorkflowBegin ==
  /\ OrchestrationQueue \in PolledQueues
  /\ WorkflowBegin

\* getClient of the executor on the ConnectionManager of the instance:
\* getConnection returns the connection that initialize has stored.
InstanceConnect == Connect /\ (connection # 0 => client')

\* The steps the event loop and the Temporal server take by themselves.
InstanceProgress ==
  \/ InitializeStep
  \/ StartWorkerStage
  \/ StartWorkersReturns
  \/ ValidateWorkflow
  \/ GetClient
  \/ InstanceConnect
  \/ ClientStart
  \/ PolledWorkflowBegin
  \/ \E k \in 1..MaxSize : k <= Len(stagePromises) /\ ExecutorReturns(k)
  \/ \E k \in 1..MaxSize : k <= Len(stagePromises) /\ ExecutorThrows(k)
  \/ RoundJoin
  \/ ResultResolves
  \/ ResultRejects
  \/ ExecuteWorkflowReturns
  \/ ExecuteWorkflowDone

\* An instance nothing has been called on, with the decorated functions of
\* two tiers or of all three, a spec to submit, and possibly a worker of
\* another process on the orchestration queue.
InstanceInit ==
  /\ spec \in SubmittedSpecs
  /\ \/ functions = DecoratedFunctions /\ stageMap = DecoratedStageMap
     \/ functions = AllTierFunctions /\ stageMap = AllTierStageMap
  /\ externalQueues \in {{}, {OrchestrationQueue}}
  /\ connection = 0
  /\ connectionLog = [created |-> {}, received |-> {}, total |-> 0]
  /\ callers = [c \in Callers |-> NoCaller]
  /\ workers = NoWorkers
  /\ created = <<>>
  /\ apiCall = NoApiCall
  /\ lastCall = NoCall /\ methods = UndecoratedMethods /\ call = NoMethodCall
  /\ current = 1 /\ parked = NoRun
  /\ client = FALSE
  /\ pc = "idle" /\ xpc = "idle" /\ wfpc = "idle"
  /\ isInitialized = FALSE
  /\ results = <<>>
  /\ completedStages = {}
  /\ readyStages = <<>>
  /\ stagePromises = <<>>
  /\ thrown = None
  /\ caught = None
  /\ report = NoReport
  /\ round = 0
  /\ dispatched = [i \in 1..Len(spec) |-> {}]
  /\ invoked = [i \in 1..Len(spec) |-> {}]
  /\ outcome = [i \in 1..Len(spec) |-> "none"]
  /\ settled = <<>>
  /\ workflowResult = NoResult
  /\ rejected = None
  /\ now = 0 /\ terminatedAt = 0
  /\ resultList = <<>> /\ conversions = <<>> /\ conversionTimes = <<>>

InstanceNext ==
  \/ CallInitialize
  \/ \E stages \in StageLists, prefix \in Prefixes : CallStartWorkers(stages, prefix)
  \/ CallExecuteWorkflow
  \/ \E w \in 1..MaxWorkers : w <= Len(created) /\ WorkerCrashes(w)
  \/ Shutdown
  \/ CallReturns
  \/ InstanceProgress

InstanceSpec == InstanceInit /\ [][InstanceNext]_vars

\* Every awaited call settles and the event loop runs every continuation
\* that is ready; nothing obliges a caller to call or a worker to crash.
FairInstanceSpec == InstanceSpec /\ WF_vars(InstanceProgress)

\* ---------------------------------------------------------- properties
StageIndexes == 1..Len(spec)
Deps(i) == Range(DepList(spec[i]))
UniqueIds == \A i, j \in StageIndexes : spec[i].id = spec[j].id => i = j

\* execute returned the report of its catch block after a client call failed.
ClientFailed == pc = "returned" /\ caught = ClientErrorText

\* execute returned the report built from the workflow's result list.
ReportedResults == pc = "returned" /\ wfpc = "returned" /\ ~ClientFailed

\* C1: whenever the ready set has been computed (a round is in flight, or
\* the empty ready set made the workflow throw), a stage is in it if and
\* only if its id is not completed and all ids of its dependsOn list are
\* completed; a stage whose dependsOn is missing or empty is in it whenever
\* its id is not completed.
C1_ReadyIff ==
  wfpc \in {"awaitAll", "threw"} =>
    \A i \in StageIndexes :
      /\ (i \in Range(readyStages)) <=>
           (spec[i].id \notin completedStages /\ Deps(i) \subseteq completedStages)
      /\ (spec[i].dependsOn \in {{}, {<<>>}} /\ spec[i].id \notin completedStages)
           => i \in Range(readyStages)

\* A later round: a stage with dependencies is ready, another one is held
\* back by an unfinished dependency, and a stage without dependsOn is done.
C1_Witness ==
  /\ wfpc = "awaitAll"
  /\ round = 2
  /\ UniqueIds
  /\ \E i, j, h \in StageIndexes :
       /\ i \in Range(readyStages) /\ Len(DepList(spec[i])) > 0
       /\ j \notin Range(readyStages) /\ spec[j].id \notin completedStages
       /\ spec[h].dependsOn = {} /\ spec[h].id \in completedStages

\* C2: a stage is dispatched (and the executor invoked for it) in round r
\* only if, for every id of its dependsOn list, a stage of that id was
\* invoked in a round before r, returned, and has a COMPLETED result in the
\* result list.
C2_DepsCompletedEarlier ==
  \A i \in StageIndexes : \A r \in dispatched[i] \cup invoked[i] : \A d \in Deps(i) :
    \E j \in StageIndexes :
      /\ spec[j].id = d
      /\ outcome[j] = "returned"
      /\ \E q \in invoked[j] : q < r
      /\ \E k \in 1..Len(results) :
           results[k].stageId = d /\ results[k].status = "COMPLETED"

\* The executor runs in round 3 for a stage whose dependency ran in round 2
\* after its own dependency had run in round 1.
C2_Witness ==
  \E i, j, h \in StageIndexes :
    /\ 3 \in invoked[i] /\ outcome[i] = "none"
    /\ spec[j].id \in Deps(i) /\ spec[h].id \in Deps(j)
    /\ invoked[j] = {2} /\ invoked[h] = {1}

\* The ids a stage depends on, directly or transitively.
IdDeps(id) == UNION {Deps(j) : j \in {h \in StageIndexes : spec[h].id = id}}

RECURSIVE ReachIds(_)
ReachIds(S) ==
  LET T == S \cup UNION {IdDeps(d) : d \in S}
  IN IF T = S THEN S ELSE ReachIds(T)

TransDeps(i) == ReachIds(Deps(i))
DefinedIds == {spec[i].id : i \in StageIndexes}
OnCycle(i) == spec[i].id \in TransDeps(i)
HasDangling(i) == ~ (TransDeps(i) \subseteq DefinedIds)
ValidDag == UniqueIds /\ \A i \in StageIndexes : ~OnCycle(i) /\ ~HasDangling(i)
AllRegistered == \A i \in StageIndexes : spec[i].function \in DOMAIN functions

\* The callback of stage i ran and produced a FAILED StageResult.
DispatchFailed(i) ==
  /\ dispatched[i] # {}
  /\ outcome[i] = "threw" \/ spec[i].function \notin DOMAIN functions

ResultsOf(id) == {k \in 1..Len(results) : results[k].stageId = id}

\* C3: a run on a valid DAG with unique ids and registered functions, whose
\* client calls and executor invocations all succeed, ends; every stage was
\* invoked and the report and all its stages are COMPLETED.
C3_Pre ==
  /\ ValidDag /\ AllRegistered
  /\ ~ClientFailed
  /\ \A i \in StageIndexes : outcome[i] # "threw"

C3_Post ==
  /\ \A i \in StageIndexes : invoked[i] # {} /\ outcome[i] = "returned"
  /\ report.status = "COMPLETED"
  /\ Len(report.stages) = Len(spec)
  /\ \A k \in 1..Len(report.stages) : report.stages[k].status = "COMPLETED"

C3_ValidDagCompletes == <>(pc = "returned" /\ (C3_Pre => C3_Post))

\* A, B without dependencies and C depending on both: COMPLETED in 2 rounds.
C3_Witness ==
  /\ pc = "returned" /\ C3_Pre /\ C3_Post
  /\ Len(spec) = 3 /\ round = 2
  /\ \E i \in StageIndexes : Len(DepList(spec[i])) = 2

\* C4: when the callback of a stage produced a FAILED result (specs with
\* unique stage ids), no stage that depends on it directly or transitively
\* is ever dispatched; each has exactly the result FAILED / "Dependency
\* stage failed" when the workflow returns, and is reported so.
C4_DependentsFail ==
  UniqueIds =>
    \A i, j \in StageIndexes :
      (DispatchFailed(i) /\ spec[i].id \in TransDeps(j)) =>
        /\ dispatched[j] = {} /\ invoked[j] = {}
        /\ wfpc = "returned" =>
             /\ ResultsOf(spec[j].id) # {}
             /\ \A k \in ResultsOf(spec[j].id) :
                  results[k].status = "FAILED" /\ results[k].error = DependencyFailedMsg
        /\ ReportedResults =>
             /\ report.stages[j].status = "FAILED"
             /\ report.stages[j].error = DependencyFailedMsg

\* A chain of three stages whose first stage failed: the report is out and
\* the last stage depends on the failed one only through the middle one.
C4_Witness ==
  /\ ReportedResults /\ UniqueIds
  /\ \E i, j \in StageIndexes :
       /\ DispatchFailed(i)
       /\ spec[i].id \in TransDeps(j) /\ spec[i].id \notin Deps(j)

\* C5: once a round with a FAILED result has been folded, the workflow has
\* returned, no stage was dispatched in a later round, every stage whose id
\* had no result gets the result FAILED / "Dependency stage failed" / "none",
\* and (unique stage ids) the report is FAILED.
C5_FailedRoundHalts ==
  \A i \in StageIndexes :
    (DispatchFailed(i) /\ wfpc # "awaitAll") =>
      /\ wfpc = "returned"
      /\ dispatched[i] = {round}
      /\ \A j \in StageIndexes : \A q \in dispatched[j] : q <= round
      /\ \A j \in StageIndexes :
           (\A h \in StageIndexes : spec[h].id = spec[j].id => dispatched[h] = {}) =>
             /\ ResultsOf(spec[j].id) # {}
             /\ \A k \in ResultsOf(spec[j].id) :
                  /\ results[k].status = "FAILED"
                  /\ results[k].error = DependencyFailedMsg
                  /\ results[k].executedBy = "none"
      /\ (ReportedResults /\ UniqueIds) => report.status = "FAILED"

\* A stage failed in the second round while a stage that does not depend
\* on it was still waiting; the report is out.
C5_Witness ==
  /\ ReportedResults /\ UniqueIds /\ round = 2
  /\ \E i, j \in StageIndexes :
       /\ DispatchFailed(i) /\ dispatched[i] = {2}
       /\ dispatched[j] = {} /\ spec[i].id \notin TransDeps(j)

\* C6: every stage of the ready set is dispatched in the round; a round is
\* folded only when each of its invocations has returned or thrown, and
\* then the result list holds, for each stage of the round, its own
\* outcome: COMPLETED with the returned value and tier for an invocation
\* that returned, whatever its siblings did, FAILED for one that threw.
C6_SiblingsRunToOutcome ==
  /\ wfpc = "awaitAll" =>
       /\ Len(stagePromises) = Len(readyStages)
       /\ \A k \in 1..Len(readyStages) :
            /\ round \in dispatched[readyStages[k]]
            /\ stagePromises[k].stageId = spec[readyStages[k]].id
  /\ \A i \in StageIndexes : \A r \in dispatched[i] :
       (r < round \/ wfpc # "awaitAll") =>
         /\ spec[i].function \in DOMAIN functions => outcome[i] # "none"
         /\ outcome[i] = "returned" =>
              \E k \in ResultsOf(spec[i].id) :
                results[k] = [stageId |-> spec[i].id, status |-> "COMPLETED",
                              result |-> ActivityOutput(spec[i].function),
                              error |-> None,
                              executedBy |-> StageName(functions[spec[i].function].stage)]
         /\ outcome[i] = "threw" =>
              \E k \in ResultsOf(spec[i].id) :
                results[k].status = "FAILED" /\ results[k].error = ActivityErrorMsg

\* A folded round of three stages: one threw, one was not registered and
\* one returned.
C6_Witness ==
  /\ wfpc = "returned" /\ UniqueIds
  /\ \E i, j, h \in StageIndexes :
       /\ dispatched[i] = {1} /\ dispatched[j] = {1} /\ dispatched[h] = {1}
       /\ outcome[i] = "threw" /\ outcome[j] = "returned"
       /\ spec[h].function \notin DOMAIN functions

\* C7: every run ends: execute returns for every spec.
C7_Terminates == <>(pc = "returned")

\* A run on a cyclic spec has ended after a round was dispatched.
C7_Witness ==
  /\ pc = "returned" /\ wfpc = "threw" /\ round > 0
  /\ \E i \in StageIndexes : OnCycle(i)

Unresolvable ==
  \E i \in StageIndexes : OnCycle(i) \/ ~ (Deps(i) \subseteq DefinedIds)

NamesCircular(error) == \E k \in 1..Len(error) : error[k] = CircularMsg

AllStagesReported ==
  /\ Len(report.stages) = Len(spec)
  /\ \A k \in StageIndexes :
       report.stages[k].id = spec[k].id /\ report.stages[k].function = spec[k].function

\* C8 as stated: a run on a spec (unique stage ids) with a cycle or a
\* dangling dependency, whose client calls succeeded, reports FAILED with
\* an error that names a circular dependency and with every stage.
C8_Original ==
  (pc = "returned" /\ ~ClientFailed /\ UniqueIds /\ Unresolvable) =>
    /\ report.status = "FAILED"
    /\ NamesCircular(report.error)
    /\ AllStagesReported

\* C8 amended: a run on a spec (unique stage ids) with a cycle or a
\* dangling dependency reports FAILED with every stage; the error names a
\* circular dependency if no client call failed and no dispatched stage
\* failed, and is "One or more stages failed" if a dispatched stage failed.
C8_Amended ==
  (pc = "returned" /\ UniqueIds /\ Unresolvable) =>
    /\ report.status = "FAILED"
    /\ AllStagesReported
    /\ (~ClientFailed /\ \A i \in StageIndexes : ~DispatchFailed(i)) =>
         wfpc = "threw" /\ NamesCircular(report.error)
    /\ (~ClientFailed /\ \E i \in StageIndexes : DispatchFailed(i)) =>
         report.error = StagesFailedMsg

\* A cycle next to a stage that completed first: the error names it.
C8_Witness ==
  /\ pc = "returned" /\ UniqueIds /\ round > 0
  /\ \E i \in StageIndexes : OnCycle(i)
  /\ NamesCircular(report.error)

C10_CompleteReport ==
  /\ pc # "returned" => ENABLED Next
  /\ pc = "returned" =>
       /\ report.status \in {"COMPLETED", "FAILED"}
       /\ AllStagesReported
       /\ \A k \in StageIndexes : report.stages[k].status \in {"COMPLETED", "FAILED"}

\* A report built from results whose order differs from the spec order.
C10_Witness ==
  /\ ReportedResults /\ UniqueIds /\ Len(spec) = 3
  /\ \E k \in 1..Len(results) : results[k].stageId # spec[k].id

EveryEntryCompleted(stages) ==
  \A k \in 1..Len(stages) : stages[k].status = "COMPLETED"

\* C11 as stated: in every report returned (by execute and by
\* executeWorkflow) the status is COMPLETED if and only if every reported
\* stage entry is COMPLETED, otherwise it is FAILED, and an error message is
\* present exactly when the status is FAILED.
C11_Original ==
  /\ pc = "returned" =>
       /\ report.status \in {"COMPLETED", "FAILED"}
       /\ report.status = "COMPLETED" <=> EveryEntryCompleted(report.stages)
       /\ report.error # None <=> report.status = "FAILED"
  /\ xpc = "returned" =>
       /\ workflowResult.status \in {"COMPLETED", "FAILED"}
       /\ workflowResult.status = "COMPLETED" <=>
            EveryEntryCompleted(workflowResult.stages)
       /\ workflowResult.error # None <=> workflowResult.status = "FAILED"

\* C11 amended: in every report returned the status is COMPLETED if and
\* only if execute caught no error and every reported stage entry is
\* COMPLETED, otherwise it is FAILED; for a spec with at least one stage
\* that is the case exactly when every reported entry is COMPLETED, while a
\* run on a spec without stages whose client call failed reports FAILED
\* with no entries.  An error message is present exactly when the status is
\* FAILED, and executeWorkflow returns the same status, entries and error.
C11_Amended ==
  /\ pc = "returned" =>
       /\ report.status \in {"COMPLETED", "FAILED"}
       /\ report.status = "COMPLETED" <=>
            (caught = None /\ EveryEntryCompleted(report.stages))
       /\ Len(spec) > 0 =>
            (report.status = "COMPLETED" <=> EveryEntryCompleted(report.stages))
       /\ (Len(spec) = 0 /\ caught # None) =>
            (report.status = "FAILED" /\ report.stages = <<>>)
       /\ report.error # None <=> report.status = "FAILED"
  /\ xpc = "returned" =>
       /\ pc = "returned"
       /\ workflowResult.status = report.status
       /\ workflowResult.stages = report.stages
       /\ workflowResult.error = report.error

\* executeWorkflow returned FAILED without entries for a spec without stages.
C11_Witness ==
  /\ xpc = "returned"
  /\ workflowResult.status = "FAILED"
  /\ workflowResult.stages = <<>>
  /\ workflowResult.error # None

\* The stage of position i names a function that is not in the registry,
\* and its callback was started.
UnregisteredDispatched(i) ==
  dispatched[i] # {} /\ spec[i].function \notin DOMAIN functions

\* The StageResults produced so far: those of the round in flight, or the
\* result list once the round has been folded.
Produced == IF wfpc = "awaitAll" THEN stagePromises ELSE results

\* C12 as stated: a dispatched stage whose function is absent from the
\* registry has a StageResult FAILED, with tier "unknown" and an error that
\* contains "not registered", and the executor is not invoked for it.  (No
\* fragment of the messages of the code has "not registered" inside it, so
\* containment is containment of the fragment.)
C12_Original ==
  \A i \in StageIndexes :
    UnregisteredDispatched(i) =>
      /\ invoked[i] = {} /\ outcome[i] = "none"
      /\ \E k \in 1..Len(Produced) :
           /\ Produced[k].stageId = spec[i].id
           /\ Produced[k].status = "FAILED"
           /\ Produced[k].executedBy = "unknown"
           /\ \E f \in 1..Len(Produced[k].error) :
                Produced[k].error[f] = "not registered"

\* C12 amended: a dispatched stage whose function is absent from the
\* registry has a StageResult FAILED, with no result value, tier "unknown"
\* and the error "Function '<name>' not found in registry", and the
\* executor is not invoked for it.
C12_Amended ==
  \A i \in StageIndexes :
    UnregisteredDispatched(i) =>
      /\ invoked[i] = {} /\ outcome[i] = "none"
      /\ \E k \in 1..Len(Produced) :
           Produced[k] =
             [stageId |-> spec[i].id, status |-> "FAILED", result |-> None,
              error |-> <<"Function '", spec[i].function, "' not found in registry">>,
              executedBy |-> "unknown"]

\* A stage with an unregistered function was dispatched in the second
\* round, after the executor had run for its dependency, and the round is
\* folded.
C12_Witness ==
  /\ wfpc = "returned" /\ UniqueIds
  /\ \E i, j \in StageIndexes :
       /\ UnregisteredDispatched(i) /\ dispatched[i] = {2}
       /\ spec[j].id \in Deps(i) /\ invoked[j] = {1}

\* The caller's call has ended: executeWorkflow returned or threw, or
\* execute, called directly, returned.
CallEnded ==
  \/ xpc \in {"returned", "threw"}
  \/ xpc = "idle" /\ pc = "returned"

\* The report the caller holds.
CallerReport == IF xpc = "idle" THEN report ELSE workflowResult

\* Stage j was dispatched in a round in which stage i was dispatched.
SameRound(i, j) == dispatched[i] \cap dispatched[j] # {}

\* C13 as stated: when a spec (unique stage ids) with a stage that names an
\* unregistered function was submitted and the SDK could be initialized,
\* the call does not throw; the report has that stage FAILED and has every
\* stage COMPLETED that was dispatched in the same round as it and whose
\* invocation returned (no client call having failed).
C13_Original ==
  \A i \in StageIndexes :
    (/\ CallEnded /\ UniqueIds
     /\ spec[i].function \notin DOMAIN functions
     /\ rejected # InitializationError) =>
      /\ xpc # "threw"
      /\ CallerReport.stages[i].status = "FAILED"
      /\ \A j \in StageIndexes :
           (SameRound(i, j) /\ outcome[j] = "returned" /\ ~ClientFailed) =>
             CallerReport.stages[j].status = "COMPLETED"

\* C13 amended: XFlow.executeWorkflow rejects a spec with a stage that
\* names an unregistered function: it throws (the validation error that
\* lists the missing names, unless initialization failed before) without
\* calling execute, no stage is dispatched and the caller gets no report.
\* WorkflowExecutor.execute, called directly on such a spec (unique stage
\* ids), returns a report that has that stage FAILED and has every stage
\* COMPLETED that was dispatched in the same round as it and whose
\* invocation returned (no client call having failed).
C13_Amended ==
  \A i \in StageIndexes :
    spec[i].function \notin DOMAIN functions =>
      /\ xpc \notin {"execute", "returned"}
      /\ xpc # "idle" =>
           /\ pc = "idle" /\ wfpc = "idle" /\ round = 0
           /\ report = NoReport /\ workflowResult = NoResult
      /\ (xpc = "threw" /\ rejected # InitializationError) =>
           /\ rejected[2] = "Workflow validation failed. Missing functions: "
           /\ \E f \in 3..Len(rejected) : rejected[f] = spec[i].function
      /\ (xpc = "idle" /\ pc = "returned" /\ UniqueIds) =>
           /\ report.stages[i].status = "FAILED"
           /\ \A j \in StageIndexes :
                (SameRound(i, j) /\ outcome[j] = "returned" /\ ~ClientFailed) =>
                  report.stages[j].status = "COMPLETED"

\* executeWorkflow threw the validation error for a spec in which a stage
\* with a registered function stands next to one with an unregistered one.
C13_Witness ==
  /\ xpc = "threw" /\ rejected # InitializationError /\ UniqueIds
  /\ \E i, j \in StageIndexes :
       /\ spec[i].function \notin DOMAIN functions
       /\ spec[j].function \in DOMAIN functions
       /\ spec[i].dependsOn = {} /\ spec[j].dependsOn = {}

\* The tier the registry resolves the function of stage i to.
ResolvedTier(i) == StageName(functions[spec[i].function].stage)

\* C14 as stated: once the invocation of a stage with a registered function
\* has thrown, its StageResult is FAILED with the description of the error
\* and the resolved tier as executor; once it has returned, its StageResult
\* is COMPLETED with the returned value and the resolved tier.
C14_Original ==
  \A i \in StageIndexes :
    spec[i].function \in DOMAIN functions =>
      /\ outcome[i] = "threw" =>
           \E k \in 1..Len(Produced) :
             /\ Produced[k].stageId = spec[i].id
             /\ Produced[k].status = "FAILED"
             /\ Produced[k].error = ActivityErrorMsg
             /\ Produced[k].executedBy = ResolvedTier(i)
      /\ outcome[i] = "returned" =>
           \E k \in 1..Len(Produced) :
             /\ Produced[k].stageId = spec[i].id
             /\ Produced[k].status = "COMPLETED"
             /\ Produced[k].result = ActivityOutput(spec[i].function)
             /\ Produced[k].executedBy = ResolvedTier(i)

\* The invocation of a stage registered for tier 2 threw and the round is
\* folded: the only result of the stage is FAILED with tier "unknown".
C14_Witness ==
  /\ wfpc = "returned" /\ UniqueIds
  /\ \E i \in StageIndexes :
       /\ spec[i].function \in DOMAIN functions /\ ResolvedTier(i) = "stage2"
       /\ outcome[i] = "threw"
       /\ \A k \in ResultsOf(spec[i].id) :
            /\ results[k].status = "FAILED"
            /\ results[k].error = ActivityErrorMsg
            /\ results[k].executedBy = "unknown"

\* Every StageResult produced so far: the settled promises of the round in
\* flight and the result list.
SettledResults ==
  Range(results) \cup {stagePromises[k] : k \in {j \in 1..Len(stagePromises) :
                                                  stagePromises[j].status # "PENDING"}}

\* The entries of the report of execute, once it has returned.
ReportedEntries == IF pc = "returned" THEN Range(report.stages) ELSE {}

\* The values the functions of the stages of an id return.
ReturnValues(id) ==
  {ActivityOutput(spec[i].function) : i \in {j \in StageIndexes : spec[j].id = id}}

\* C15 as stated: every StageResult and every reported stage entry has a
\* result value if and only if its status is COMPLETED and an error
\* description if and only if its status is FAILED.
C15_Original ==
  /\ \A r \in SettledResults :
       /\ r.result # None <=> r.status = "COMPLETED"
       /\ r.error # None <=> r.status = "FAILED"
  /\ \A e \in ReportedEntries :
       /\ e.result # None <=> e.status = "COMPLETED"
       /\ e.error # None <=> e.status = "FAILED"

\* C15 amended: every StageResult and every reported stage entry has an
\* error description if and only if its status is FAILED, and has a result
\* value only if its status is COMPLETED; the result of a COMPLETED one is
\* what the function of a stage of that id returned, which is no value for
\* a function that returns nothing.
C15_Amended ==
  /\ \A r \in SettledResults :
       /\ r.status \in {"COMPLETED", "FAILED"}
       /\ r.error # None <=> r.status = "FAILED"
       /\ r.result # None => r.status = "COMPLETED"
       /\ r.status = "COMPLETED" => r.result \in ReturnValues(r.stageId)
  /\ \A e \in ReportedEntries :
       /\ e.status \in {"COMPLETED", "FAILED"}
       /\ e.error # None <=> e.status = "FAILED"
       /\ e.result # None => e.status = "COMPLETED"
       /\ e.status = "COMPLETED" => e.result \in ReturnValues(e.id)

\* A report with a COMPLETED entry that has a result, a COMPLETED entry of
\* a function that returned nothing, and a FAILED entry.
C15_Witness ==
  /\ ReportedResults /\ UniqueIds
  /\ \E i, j, h \in StageIndexes :
       /\ report.stages[i].status = "COMPLETED" /\ report.stages[i].result # None
       /\ report.stages[j].status = "COMPLETED" /\ report.stages[j].result = None
       /\ report.stages[h].status = "FAILED" /\ report.stages[h].error # None

Max(S) == CHOOSE x \in S : \A y \in S : y <= x

\* The number of stages on the longest dependency chain that ends in stage
\* i (defined for a valid DAG).
RECURSIVE ChainLength(_)
ChainLength(i) ==
  1 + Max({0} \cup {ChainLength(j) : j \in {h \in StageIndexes : spec[h].id \in Deps(i)}})

LongestChain == Max({0} \cup {ChainLength(i) : i \in StageIndexes})

NoEdges == \A i \in StageIndexes : Deps(i) = {}

\* C16: in a run on a valid DAG with registered functions no more rounds
\* are dispatched than there are stages on the longest dependency chain;
\* when the workflow has returned and all invocations succeeded, every
\* stage was dispatched once, in the round given by the length of its
\* longest chain, and the number of rounds equals the longest chain of the
\* spec; with no dependency edges every stage is dispatched in round 1 and
\* one round is used.
C16_RoundsAreCriticalPath ==
  (ValidDag /\ AllRegistered) =>
    /\ round <= LongestChain
    /\ (wfpc = "returned" /\ \A i \in StageIndexes : outcome[i] = "returned") =>
         /\ round = LongestChain
         /\ \A i \in StageIndexes : dispatched[i] = {ChainLength(i)}
         /\ (NoEdges /\ Len(spec) > 0) =>
              /\ round = 1
              /\ \A i \in StageIndexes : dispatched[i] = {1}

\* A completed run of two rounds on three stages: two stages without
\* dependencies and one that depends on one of them.
C16_Witness ==
  /\ wfpc = "returned" /\ ValidDag /\ AllRegistered
  /\ \A i \in StageIndexes : outcome[i] = "returned"
  /\ Len(spec) = 3 /\ round = 2 /\ LongestChain = 2

\* C17: in one run the callback of a stage is started, and the executor
\* invoked for it, at most once.  Whenever the workflow returns normally
\* its result list has a StageResult for the id of every stage, so no
\* entry of the report built from it is synthesized; for a spec with
\* unique stage ids the list has exactly one StageResult for each stage.
C17_OneResultPerStage ==
  /\ \A i \in StageIndexes :
       Cardinality(dispatched[i]) <= 1 /\ Cardinality(invoked[i]) <= 1
  /\ wfpc = "returned" =>
       /\ \A i \in StageIndexes : FindResult(results, spec[i].id) # 0
       /\ \A k \in 1..Len(results) : results[k].stageId \in DefinedIds
       /\ UniqueIds =>
            /\ Len(results) = Len(spec)
            /\ \A i \in StageIndexes : Cardinality(ResultsOf(spec[i].id)) = 1
  /\ ReportedResults =>
       \A k \in StageIndexes : report.stages[k].error # NotExecutedMsg

\* A run that stopped in its second round: one stage completed in round 1,
\* one failed in round 2 and one got its result from the cascade.
C17_Witness ==
  /\ ReportedResults /\ UniqueIds /\ round = 2 /\ Len(results) = 3
  /\ \E i, j, h \in StageIndexes :
       /\ invoked[i] = {1} /\ outcome[i] = "returned"
       /\ invoked[j] = {2} /\ outcome[j] = "threw"
       /\ dispatched[h] = {}
       /\ \E k \in ResultsOf(spec[h].id) : results[k].error = DependencyFailedMsg

\* The ids that have a COMPLETED StageResult in the result list.
CompletedIds ==
  {results[k].stageId : k \in {j \in 1..Len(results) : results[j].status = "COMPLETED"}}

\* C18: in every state of a run the completed set is exactly the set of the
\* ids that have a COMPLETED StageResult in the result list; the id of a
\* stage whose callback produced a FAILED result is not in it (unique stage
\* ids); and no step removes an id from it.
C18_CompletedSet ==
  /\ [](/\ completedStages = CompletedIds
        /\ UniqueIds =>
             /\ \A i \in StageIndexes :
                  DispatchFailed(i) => spec[i].id \notin completedStages
             /\ \A k \in 1..Len(results) :
                  results[k].status = "FAILED" =>
                    results[k].stageId \notin completedStages)
  /\ [][completedStages \subseteq completedStages']_vars

\* A round with a failure was folded after a round that completed a stage:
\* the completed set has grown and a FAILED id is outside it.
C18_Witness ==
  /\ wfpc = "returned" /\ UniqueIds /\ round = 2
  /\ completedStages # {}
  /\ \E i \in StageIndexes :
       DispatchFailed(i) /\ FindResult(results, spec[i].id) # 0

\* The executor invocation of stage i has neither returned nor thrown.
InFlight(i) == invoked[i] # {} /\ outcome[i] = "none"

\* C19: an invocation is in flight only in the round dispatched last, so
\* invocations of two rounds are never in flight together; every stage
\* dispatched in an earlier round has its result in the result list and,
\* if it returned, its id in the completed set.  A step that dispatches the
\* next round is taken when no invocation is in flight, folds every result
\* of the round before into the result list and the completed set, and
\* computes the ready set from that completed set.
C19_RoundsSequential ==
  /\ [](\A i \in StageIndexes :
          /\ InFlight(i) => (wfpc = "awaitAll" /\ invoked[i] = {round})
          /\ \A r \in dispatched[i] :
               r < round =>
                 /\ ResultsOf(spec[i].id) # {}
                 /\ outcome[i] = "returned" => spec[i].id \in completedStages)
  /\ [][round' # round =>
          /\ round' = round + 1
          /\ \A i \in StageIndexes : ~InFlight(i)
          /\ \A k \in 1..Len(stagePromises) :
               /\ \E h \in 1..Len(results') : results'[h] = stagePromises[k]
               /\ stagePromises[k].status = "COMPLETED" =>
                    stagePromises[k].stageId \in completedStages'
          /\ readyStages' = ReadyStages(spec, completedStages')
          /\ \A i \in StageIndexes :
               dispatched'[i] # dispatched[i] => i \in Range(readyStages')]_vars

\* The second round is in flight after a first round of two stages, one of
\* which is no dependency of the stage in flight.
C19_Witness ==
  /\ wfpc = "awaitAll" /\ round = 2 /\ UniqueIds
  /\ \E i, j, h \in StageIndexes :
       /\ InFlight(i) /\ invoked[i] = {2}
       /\ invoked[j] = {1} /\ spec[j].id \in Deps(i)
       /\ invoked[h] = {1} /\ spec[h].id \notin Deps(i)

\* The stage of position k has no result in the converted result list.
Synthesized(k) == FindResult(resultList, spec[k].id) = 0

CallbackResult(stage, o) ==
  IF StartStage(stage).status = "FAILED" THEN StartStage(stage)
  ELSE IF o = "returned" THEN StageSucceeded(stage)
  ELSE IF o = "threw" THEN StageFailed(stage, ActivityErrorMsg)
  ELSE PendingPromise(stage.id)

\* The while loop of executeDistributedWorkflow run to its end on the
\* stages, with the outcome o[i] for the invocation of stage i: the result
\* list, and whether the loop threw.  (An invocation without an outcome
\* leaves its promise pending, and the loop stops there.)
RECURSIVE SoloLoop(_, _, _, _)
SoloLoop(stages, o, res, completed) ==
  IF ~ (Cardinality(completed) < Len(stages))
  THEN [threw |-> FALSE, results |-> res]
  ELSE LET ready == ReadyStages(stages, completed) IN
       IF Len(ready) = 0
       THEN [threw |-> TRUE, results |-> res]
       ELSE LET stageResults == [k \in 1..Len(ready) |->
                                   CallbackResult(stages[ready[k]], o[ready[k]])]
                completed2 == FoldCompleted(completed, stageResults)
            IN IF RoundFailed(stageResults)
               THEN [threw |-> FALSE,
                     results |-> (res \o stageResults)
                                 \o CascadeResults(stages, completed2, stageResults)]
               ELSE IF \E k \in 1..Len(stageResults) : stageResults[k].status = "PENDING"
               THEN [threw |-> FALSE, results |-> res \o stageResults]
               ELSE SoloLoop(stages, o, res \o stageResults, completed2)

\* The report of a call of execute that runs alone: on the stages, with the
\* outcomes o of the executor and the error c of the client calls (None
\* when they succeed).
SoloReport(stages, o, c) ==
  IF c = ClientErrorText THEN CatchReport(ClientErrorText, stages)
  ELSE LET r == SoloLoop(stages, o, <<>>, {}) IN
       IF r.threw THEN CatchReport(NoReadyError, stages)
       ELSE TryReport(r.results, stages)

\* C21: the report of each of two concurrent runs on one executor, which
\* share the client and the registry and keep their result list and their
\* completed set to themselves, equals the report the run produces alone
\* with the same outcomes of the executor (and of the client calls).
C21_ConcurrentRunsIndependent ==
  /\ pc = "returned" => report = SoloReport(spec, outcome, caught)
  /\ parked.pc = "returned" =>
       parked.report = SoloReport(parked.spec, parked.outcome, parked.caught)

\* Both runs have returned, each after at least one round: one with every
\* stage completed, and one with a stage whose invocation threw.
C21_Witness ==
  /\ pc = "returned" /\ parked.pc = "returned"
  /\ Len(spec) > 0 /\ Len(parked.spec) > 0
  /\ report.status = "FAILED" /\ parked.report.status = "COMPLETED"
  /\ round > 0 /\ parked.round > 0
  /\ \E i \in StageIndexes : outcome[i] = "threw"
  /\ report = SoloReport(spec, outcome, caught)
  /\ parked.report = SoloReport(parked.spec, parked.outcome, parked.caught)

\* C22: no step of a workflow execution, started through either entry
\* point and on every path (completed, failed stages, rejected by the
\* validation, failed client, thrown by the loop), changes the registry:
\* the registered names, their registrations and the sets of names per tier.
C22_RegistryUnchanged ==
  [][functions' = functions /\ stageMap' = stageMap]_vars

\* executeWorkflow returned a FAILED result for a run in which an
\* invocation threw, and the registry is the one the run started with.
C22_Witness ==
  /\ xpc = "returned" /\ workflowResult.status = "FAILED"
  /\ \E i \in StageIndexes : outcome[i] = "threw"
  /\ functions = DecoratedFunctions /\ stageMap = DecoratedStageMap

\* C23 as stated: the workflow throws the 'circular dependency / no stages
\* ready' error only if a stage whose id is not completed lies on a
\* dependency cycle or depends, directly or transitively, on an id that no
\* stage of the spec defines.
C23_Original ==
  wfpc = "threw" =>
    \E i \in StageIndexes :
      /\ spec[i].id \notin completedStages
      /\ OnCycle(i) \/ HasDangling(i)

\* C23 amended: the workflow throws the 'circular dependency / no stages
\* ready' error only if a stage whose id is not completed lies on a
\* dependency cycle or depends, directly or transitively, on an id that no
\* stage of the spec defines, or if two stages of the spec have the same
\* id (the completed set, a set of ids, then never reaches the number of
\* stages).
C23_Amended ==
  wfpc = "threw" =>
    \/ \E i \in StageIndexes :
         /\ spec[i].id \notin completedStages
         /\ OnCycle(i) \/ HasDangling(i)
    \/ ~UniqueIds

\* The error is thrown in a later round of a spec with distinct ids: a
\* stage has completed, and a stage that is not completed lies on a cycle.
C23_Witness ==
  /\ wfpc = "threw" /\ thrown = NoReadyError /\ UniqueIds
  /\ completedStages # {}
  /\ \E i \in StageIndexes : spec[i].id \notin completedStages /\ OnCycle(i)

\* ------------------------------------------------ registry and decorator
\* The names registered for a tier, read from the function map.
NamesOfStage(stage) == {name \in DOMAIN functions : functions[name].stage = stage}

\* C24: a call of register with a name that is registered already (for the
\* same or for another tier) throws 'Function name conflict' and changes
\* neither the function map (the first registration's function and tier are
\* kept) nor a per-tier set; and in every state reached by register calls
\* each name is bound to one registration, which is in the set of its tier
\* and of no other tier.
C24_ConflictKeepsRegistry ==
  /\ [](\A name \in DOMAIN functions :
          /\ functions[name].name = name
          /\ {s \in DOMAIN stageMap : name \in stageMap[s]} = {functions[name].stage})
  /\ [][(lastCall'.op = "register" /\ lastCall'.name \in DOMAIN functions) =>
          /\ lastCall'.threw = ConflictMsg(lastCall'.name, functions[lastCall'.name].stage)
          /\ functions' = functions
          /\ stageMap' = stageMap]_vars

\* A register call for a registered name, with another tier and another
\* function, was refused.
C24_Witness ==
  /\ lastCall.op = "register"
  /\ lastCall.threw # None
  /\ lastCall.threw[1] = "Function name conflict: '"
  /\ lastCall.name \in DOMAIN functions
  /\ functions[lastCall.name].stage # lastCall.stage
  /\ functions[lastCall.name].originalFunction # lastCall.originalFunction

\* C25: after any sequence of register and clear calls the function map
\* and the per-tier index agree: a registered name is in the set of its
\* tier and in no other, the sets hold registered names only,
\* getFunctionsByStage(s) returns exactly the registrations with tier s,
\* and the totalFunctions of getStats is the sum of its three byStage counts.
C25_IndexAgrees ==
  /\ \A name \in DOMAIN functions : \A s \in WorkerStages :
       name \in stageMap[s] <=> functions[name].stage = s
  /\ \A s \in WorkerStages : stageMap[s] \subseteq DOMAIN functions
  /\ lastCall.op = "getFunctionsByStage" =>
       lastCall.result = {functions[name] : name \in NamesOfStage(lastCall.stage)}
  /\ lastCall.op = "getStats" =>
       /\ lastCall.result.totalFunctions = Cardinality(DOMAIN functions)
       /\ lastCall.result.totalFunctions =
            lastCall.result.byStage.stage1 + lastCall.result.byStage.stage2
            + lastCall.result.byStage.stage3
       /\ \A s \in WorkerStages :
            <<lastCall.result.byStage.stage1, lastCall.result.byStage.stage2,
              lastCall.result.byStage.stage3>>[s] = Cardinality(NamesOfStage(s))

\* getStats was called on a registry with functions in two tiers.
C25_Witness ==
  /\ lastCall.op = "getStats"
  /\ lastCall.result.totalFunctions = 2
  /\ lastCall.result.byStage.stage1 = 1
  /\ lastCall.result.byStage.stage3 = 1

\* The positions of the unregistered names of a list, and the k-th of them.
UnregisteredPositions(names) == {i \in 1..Len(names) : names[i] \notin DOMAIN functions}

KthPosition(P, k) == CHOOSE i \in P : Cardinality({j \in P : j < i}) = k - 1

\* C26: validateWorkflowFunctions(names) returns valid = true if and only
\* if every name of the list is registered, and missing is the sub-list of
\* the unregistered names: the unregistered entries of the list, each as
\* often as it occurs and in the order of the list.
C26_ValidIffAllRegistered ==
  lastCall.op = "validateWorkflowFunctions" =>
    LET names == lastCall.names
        missing == lastCall.result.missing
        P == UnregisteredPositions(names)
    IN /\ lastCall.result.valid <=>
            \A i \in 1..Len(names) : names[i] \in DOMAIN functions
       /\ Len(missing) = Cardinality(P)
       /\ \A k \in 1..Len(missing) : missing[k] = names[KthPosition(P, k)]

\* A list of a registered name followed by an unregistered name was validated.
C26_Witness ==
  /\ lastCall.op = "validateWorkflowFunctions"
  /\ Len(lastCall.names) = 2
  /\ lastCall.names[1] \in DOMAIN functions
  /\ lastCall.names[2] \notin DOMAIN functions
  /\ ~lastCall.result.valid
  /\ lastCall.result.missing = <<lastCall.names[2]>>

\* C27 as stated: generateActivitiesForStage(s) returns a map whose keys
\* are the names registered for tier s and 'executeStage{s}Activity', in
\* which every registered name of the tier has its own original function,
\* the dispatcher key has the dispatcher of the tier, and no function of
\* another tier is included.
C27_Original ==
  lastCall.op = "generateActivitiesForStage" =>
    LET activities == lastCall.result
        stage == lastCall.stage
    IN /\ DOMAIN activities = NamesOfStage(stage) \cup {DispatcherKey(stage)}
       /\ \A name \in NamesOfStage(stage) :
            activities[name] = functions[name].originalFunction
       /\ activities[DispatcherKey(stage)] = StageExecutorOf(stage)

\* The activities of a tier were generated while a function of the tier
\* and a function of another tier were registered.
C27_Witness ==
  /\ lastCall.op = "generateActivitiesForStage"
  /\ NamesOfStage(lastCall.stage) # {}
  /\ \E name \in DOMAIN functions : functions[name].stage # lastCall.stage
  /\ DispatcherKey(lastCall.stage) \notin DOMAIN functions
  /\ \A name \in NamesOfStage(lastCall.stage) :
       lastCall.result[name] = functions[name].originalFunction

\* C29: the dispatcher executeStage{s}Activity of tier s calls a
\* function's original implementation only if the name it is given is
\* registered, and registered for tier s, and then it calls this
\* implementation once; for an unregistered name and for a name of another
\* tier it throws and calls nothing.
C29_DispatcherGuards ==
  lastCall.op = "executeStageActivity" =>
    IF lastCall.name \in NamesOfStage(lastCall.stage)
    THEN lastCall.invoked = <<functions[lastCall.name].originalFunction>>
    ELSE /\ lastCall.invoked = <<>>
         /\ lastCall.threw # None
         /\ lastCall.threw =
              IF lastCall.name \in DOMAIN functions
              THEN WrongStageMsg(lastCall.name, functions[lastCall.name].stage,
                                 lastCall.stage)
              ELSE NotRegisteredMsg(lastCall.name)

\* The dispatcher of a tier was called with a name registered for another
\* tier, and refused it.
C29_Witness ==
  /\ lastCall.op = "executeStageActivity"
  /\ lastCall.name \in DOMAIN functions
  /\ functions[lastCall.name].stage # lastCall.stage
  /\ lastCall.invoked = <<>>
  /\ lastCall.threw # None

\* The name under which the decorator registers the method `key`.
DecoratedName(key, options) == IF options.name = "" THEN key ELSE options.name

\* C28: an application of @xflowFunction with a valid stage and a name that
\* is not registered yet registers the method's original function under
\* options.name (the method name when no name is given) with that stage
\* (an application throws exactly when the stage is invalid or the name is
\* registered already, and then registers nothing); and a call of the
\* decorated method with no hooks configured calls the original function
\* once with the call's argument and returns what it returns (and throws
\* what it throws).
C28_DecoratorRegistersAndDelegates ==
  /\ [](/\ \A key \in MethodKeys : methods[key].wrapped =>
             /\ methods[key].name \in DOMAIN functions
             /\ functions[methods[key].name] =
                  Registration(methods[key].name, methods[key].stage,
                               UndecoratedMethods[key].original)
             /\ methods[key].name \in stageMap[methods[key].stage]
        /\ (lastCall.op = "xflowFunction" /\ lastCall.threw = None) =>
             LET name == DecoratedName(lastCall.key, lastCall.options) IN
             /\ methods[lastCall.key].wrapped
             /\ methods[lastCall.key].name = name
             /\ methods[lastCall.key].stage = lastCall.options.stage
             /\ lastCall.options.stage \in WorkerStages
        /\ (call.hpc = "done" /\ methods[call.key].hooks = {}) =>
             /\ Len(call.trace) = 1 /\ call.trace[1].event = "original"
             /\ ~call.trace[1].threw =>
                  /\ call.completion = "return"
                  /\ call.result = OriginalResult(UndecoratedMethods[call.key].original,
                                                  call.arg)
             /\ call.trace[1].threw =>
                  /\ call.completion = "throw"
                  /\ call.error = FunctionErrorMsg)
  /\ [][(lastCall'.op = "xflowFunction" /\ lastCall' # lastCall) =>
          LET name == DecoratedName(lastCall'.key, lastCall'.options) IN
          /\ lastCall'.threw = None <=>
               (lastCall'.options.stage \in WorkerStages /\ name \notin DOMAIN functions)
          /\ lastCall'.threw # None =>
               functions' = functions /\ stageMap' = stageMap /\ methods' = methods]_vars

\* The decorator was applied without a name and without hooks, and a call
\* of the decorated method with argument 1 returned the original's result.
C28_Witness ==
  /\ lastCall.op = "xflowFunction" /\ lastCall.threw = None
  /\ lastCall.options.name = "" /\ lastCall.options.hooks = {}
  /\ "m1" \in DOMAIN functions /\ functions["m1"].stage = lastCall.options.stage
  /\ call.hpc = "done" /\ call.arg = 1 /\ call.completion = "return"
  /\ call.result = OriginalResult("implA", 1)

\* The positions of an event in the trace of the call.
EventPositions(event) ==
  {j \in 1..Len(call.trace) : call.trace[j].event = event}

\* C30: in every call of a decorated function a hook runs only if it is
\* set; onStart, if set, runs before the original function, which runs
\* only after it; onSuccess runs only after the original function has
\* returned; onFailure runs only after an error was thrown (by the
\* original function or by onStart or onSuccess); onFinish, if set, runs
\* exactly once per call, after all other hooks and on both the returning
\* and the throwing path, and nothing runs after it.
C30_HookOrder ==
  call.hpc # "idle" =>
    LET t == call.trace
        hooks == methods[call.key].hooks
    IN /\ \A j \in 1..Len(t) : t[j].event \in hooks \cup {"original"}
       /\ \A j \in EventPositions("onStart") : j = 1
       /\ \A i \in EventPositions("original") :
            /\ \A j \in EventPositions("onStart") : j < i
            /\ "onStart" \in hooks => \E j \in EventPositions("onStart") :
                                         j < i /\ ~t[j].threw
       /\ \A j \in EventPositions("onSuccess") :
            \E i \in EventPositions("original") : i < j /\ ~t[i].threw
       /\ \A j \in EventPositions("onFailure") :
            \E i \in 1..(j - 1) :
              t[i].threw /\ t[i].event \in {"onStart", "original", "onSuccess"}
       /\ Cardinality(EventPositions("onFinish")) <= 1
       /\ \A j \in EventPositions("onFinish") : j = Len(t) /\ call.hpc = "done"
       /\ call.hpc = "done" =>
            /\ call.completion \in {"return", "throw"}
            /\ "onFinish" \in hooks => Cardinality(EventPositions("onFinish")) = 1

\* A call with all four hooks set in which the original function threw:
\* onStart, the original function, onFailure and onFinish ran, in this
\* order, and the call threw the original's error.
C30_Witness ==
  /\ call.hpc = "done" /\ call.completion = "throw"
  /\ methods[call.key].hooks = HookNames
  /\ call.error = FunctionErrorMsg
  /\ call.trace = <<Event("onStart", FALSE), Event("original", TRUE),
                    Event("onFailure", FALSE), Event("onFinish", FALSE)>>

\* ------------------------------------------------------ what a run reports
\* C39 as stated: in the report of a run that ended without a client
\* failure (spec with distinct ids), every stage whose invocation of the
\* executor returned is COMPLETED with the returned value and the tier that
\* ran it, also when the run stopped on a failing round or because no stage
\* was ready in a later round.
C39_Original ==
  (pc = "returned" /\ UniqueIds /\ ~ClientFailed) =>
    \A i \in StageIndexes :
      outcome[i] = "returned" =>
        /\ report.stages[i].status = "COMPLETED"
        /\ report.stages[i].result = ActivityOutput(spec[i].function)
        /\ report.stages[i].executedBy =
             StageName(getStageForFunction(spec[i].function))

\* A run that stopped on a failing round reports the stage that returned
\* in an earlier round as COMPLETED, with its value and its tier.
C39_Witness ==
  /\ pc = "returned" /\ UniqueIds /\ ~ClientFailed /\ round = 2
  /\ report.status = "FAILED"
  /\ \E i, j \in StageIndexes :
       /\ outcome[i] = "returned" /\ outcome[j] = "threw"
       /\ report.stages[i].status = "COMPLETED"
       /\ report.stages[i].result = ActivityOutput(spec[i].function)
       /\ report.stages[i].executedBy = "stage1"

\* ------------------------------------------- order of completion in a round
\* The final mapping of a report: stage id -> (status, result, error).
FinalMapping(rep) ==
  {[id |-> st.id, status |-> st.status, result |-> st.result, error |-> st.error] :
     st \in Range(rep.stages)}

\* The two runs got the same spec, the same outcome of every executor
\* invocation and the same behaviour of the client.
SameInputs ==
  /\ pc = "returned" /\ parked.pc = "returned"
  /\ spec = parked.spec
  /\ outcome = parked.outcome
  /\ (caught = ClientErrorText) <=> (parked.caught = ClientErrorText)

\* C40: two runs on the same spec and registry in which every executor
\* invocation has the same outcome, whatever the order in which the stages
\* of a round settle (settled holds the stage that settled first), report the same mapping stage id -> (status, result
\* or error) and the same overall status.
C40_OrderIrrelevant ==
  SameInputs =>
    /\ FinalMapping(report) = FinalMapping(parked.report)
    /\ report.status = parked.report.status

\* Two runs of a spec with two stages in one round, one invocation returned
\* and one threw, a different stage settled first in each run, and the two
\* reports hold the same mapping.
C40_Witness ==
  /\ SameInputs
  /\ Len(spec) = 2
  /\ Len(settled) = 1 /\ Len(parked.settled) = 1
  /\ settled # parked.settled
  /\ round = 1 /\ parked.round = 1
  /\ \E i, j \in StageIndexes : outcome[i] = "returned" /\ outcome[j] = "threw"
  /\ FinalMapping(report) = FinalMapping(parked.report)
  /\ report.status = "FAILED" /\ parked.report.status = "FAILED"

\* ------------------------------------------------ errors of a decorated call
\* The call has completed and the trace holds the event e.
Happened(e) ==
  call.hpc = "done" /\ \E p \in 1..Len(call.trace) : call.trace[p] = e

\* C31: a decorated call whose original function threw fails with the
\* error of the original function, also when onFailure or onFinish threw:
\* the errors of these two hooks never replace it.
C31_OriginalErrorKept ==
  Happened(Event("original", TRUE)) =>
    call.completion = "throw" /\ call.error = FunctionErrorMsg

\* The original function threw, then onFailure threw and onFinish threw,
\* and the call failed with the error of the original function.
C31_Witness ==
  /\ Happened(Event("original", TRUE))
  /\ Happened(Event("onFailure", TRUE))
  /\ Happened(Event("onFinish", TRUE))
  /\ call.completion = "throw" /\ call.error = FunctionErrorMsg

\* C32 as stated: a decorated call whose original function returned
\* resolves with the returned value and does not invoke onFailure, and no
\* call invokes both onSuccess and onFailure.
C32_Original ==
  /\ Happened(Event("original", FALSE)) =>
       /\ call.completion = "return"
       /\ call.result = OriginalResult(methods[call.key].original, call.arg)
       /\ \A threw \in BOOLEAN : ~Happened(Event("onFailure", threw))
  /\ ~ \E s, f \in BOOLEAN :
         Happened(Event("onSuccess", s)) /\ Happened(Event("onFailure", f))

\* The original function returned, onSuccess returned, and the call
\* resolved with the value without an invocation of onFailure.
C32_Witness ==
  /\ Happened(Event("original", FALSE))
  /\ Happened(Event("onSuccess", FALSE))
  /\ call.completion = "return"
  /\ call.result = OriginalResult(methods[call.key].original, call.arg)
  /\ \A threw \in BOOLEAN : ~Happened(Event("onFailure", threw))

\* ------------------------------------------------------- one connection
\* C36 as stated: between two close calls at most one connection is
\* created, and every caller of getConnection, overlapping callers
\* included, receives the same connection object.
C36_Original ==
  /\ Cardinality(connectionLog.created) <= 1
  /\ Cardinality(connectionLog.received) <= 1

\* Two callers of getConnection that did not overlap hold the same
\* connection, the only one created.
C36_Witness ==
  /\ \A c \in Callers :
       callers[c].op = "getConnection" /\ callers[c].cpc = "returned"
  /\ callers[1].got = callers[2].got
  /\ connectionLog.created = {callers[1].got}
  /\ connectionLog.received = {callers[1].got}

\* ------------------------------------------------------- the XFlow instance
\* The call in progress is a call of initialize, startWorkers or
\* executeWorkflow that is past its initialize step.
PastInitialize ==
  /\ apiCall.op \in {"initialize", "startWorkers", "executeWorkflow"}
  /\ apiCall.apc \notin {"initialize", "ensureInitialized"}

\* What a call of initialize, startWorkers or executeWorkflow does about
\* the connection test.
InitializeOnce ==
  PastInitialize =>
    /\ apiCall.initializedBefore =>
         ~apiCall.tested /\ apiCall.error # InitializationError
    /\ ~apiCall.initializedBefore => apiCall.tested
    /\ (apiCall.tested /\ apiCall.error = InitializationError) =>
         apiCall.apc = "done" /\ ~isInitialized
    /\ (apiCall.tested /\ apiCall.error # InitializationError) => isInitialized

\* C33: isInitialized, once set by a successful call, is never reset, and a
\* call of initialize, startWorkers or executeWorkflow made when it is set
\* proceeds without a connection test; a call made when it is not set tests
\* the connection, and when the test fails the call throws the
\* initialization error and isInitialized stays unset, so that the next
\* call tests again.
C33_InitializeIdempotent ==
  []InitializeOnce /\ [][isInitialized => isInitialized']_vars

\* executeWorkflow, called on an initialized instance, has returned a
\* COMPLETED result without a connection test.
C33_Witness ==
  /\ apiCall.op = "executeWorkflow" /\ apiCall.apc = "done"
  /\ apiCall.initializedBefore /\ ~apiCall.tested
  /\ xpc = "returned" /\ workflowResult.status = "COMPLETED"

\* The workers this instance created that are running.
RunningWorkers == {w \in 1..Len(created) : created[w].state = "running"}

\* C34 as stated: getWorkerStatus().running holds a tier exactly when a
\* worker of the tier that this instance started is still running, and
\* running and stopped partition {1, 2, 3}.
C34_Original ==
  /\ \A s \in {1, 2, 3} :
       s \in getWorkerStatus.running <=> \E w \in RunningWorkers : created[w].stage = s
  /\ getWorkerStatus.running \cup getWorkerStatus.stopped = {1, 2, 3}
  /\ getWorkerStatus.running \cap getWorkerStatus.stopped = {}

\* One worker per tier was started, one of them has crashed, and the status
\* lists the tiers of the others as running.
C34_Witness ==
  /\ Len(created) >= 2
  /\ \A v, w \in 1..Len(created) : created[v].stage = created[w].stage => v = w
  /\ \E w \in 1..Len(created) : created[w].state = "crashed"
  /\ getWorkerStatus.running = {created[w].stage : w \in RunningWorkers}
  /\ getWorkerStatus.running # {}

\* shutdown has returned.
ShutdownReturned == apiCall.op = "shutdown" /\ apiCall.apc = "done"

\* C35 as stated: when shutdown returns, no worker that startWorkers
\* created on this instance is left running without a shutdown request,
\* also when a tier was started more than once, and no worker is tracked.
C35_Original ==
  ShutdownReturned => RunningWorkers = {} /\ workers = NoWorkers

\* shutdown has returned on an instance with one worker per tier: shutdown
\* was requested on each of them and none is tracked.
C35_Witness ==
  /\ ShutdownReturned
  /\ Len(created) >= 2
  /\ \A w \in 1..Len(created) : created[w].state = "shutdown"
  /\ workers = NoWorkers

\* A worker of every tier, started by this instance, is running and
\* tracked, and every tier has functions.
StartedOnEveryTier ==
  \A s \in {1, 2, 3} :
    /\ getFunctionsByStage(s) # {}
    /\ workers[s] # 0
    /\ created[workers[s]].state = "running"

C38_Original ==
  \A w \in 1..Len(created) :
    created[w].taskQueue = DispatchQueue(created[w].stage)

\* startWorkers with the prefix 'xflow' has started a worker of every tier,
\* each on the queue executeOnWorkerStage dispatches to.
C38_Witness ==
  /\ StartedOnEveryTier
  /\ \A w \in 1..Len(created) :
       created[w].taskQueue = DispatchQueue(created[w].stage)

====
